---- MODULE Spec2Model ----
(***************************************************************************)
(* S3 Smart Sync: the reconciliation planner (diff_engine.py), the sync    *)
(* and moves passes that execute its plan (main.py), the remote client     *)
(* (s3_client.py), the file index (db.py), the scanner (scanner.py), the   *)
(* archive handler (archive_handler.py) and the run logger (logger.py).    *)
(***************************************************************************)
EXTENDS Integers, Sequences, FiniteSets, TLC

VARIABLES
    fs,                 \* the local tree under source_path: set of files
    db,                 \* the `files` table of .s3-smart-sync.db: set of rows
    remote,             \* the bucket under the prefix: key -> object content
    restore_log,        \* archive_restore_needed.log: [exists, lines]
    now,                \* the wall clock second Logger.start() stamps a run with
    passes,             \* passes started so far
    pc,                 \* position of the running command ("idle" between runs)
    cmd,                \* "sync" or "moves"
    dry_run,            \* args.dry_run
    delete_orphans,     \* args.delete
    previous_records,   \* db.get_all_records() of the running pass
    current_files,      \* scanner.scan_to_dict() of the running pass, in dict order
    s3_objects,         \* s3.list_objects() of the running pass
    plan,               \* engine.compute_plan() of the running pass
    idx,                \* loop index inside the current execution phase
    pending_keys,       \* archive_handler._pending_keys
    calls,              \* remote calls issued by the running pass, in order
    db_writes,          \* index mutations made by the running pass, in order
    report,             \* how the last pass ended
    archived_moves,     \* moves the previous sync pass reported 'archived', while
                        \* the tree is as that pass scanned it
    moved_edits,        \* new paths of the files the previous sync pass moved
                        \* remotely though they were modified as well as renamed,
                        \* while the tree is as that pass scanned it
    previous_pass,      \* the pass that ran last, while the tree is as that pass
                        \* left it: its command, its delete flag and the paths
                        \* it found modified; NoPass unless it was a sync pass
                        \* whose calls all succeeded or a moves pass, no dry run
    source_kind,        \* what source_path names: "dir", "file" (anything that
                        \* is not a directory) or "missing"
    heads,              \* what head_object answered to the running restore-status
    statuses,           \* get_restore_status() per key of the running restore-status
    logged_keys         \* keys written to the restore log since it was last removed

vars == <<fs, db, remote, restore_log, now, passes, pc, cmd, dry_run,
          delete_orphans, previous_records, current_files, s3_objects, plan,
          idx, pending_keys, calls, db_writes, report, archived_moves, moved_edits, previous_pass, source_kind,
          heads, statuses, logged_keys>>

\* What only the restore commands and the restore log bookkeeping touch.
restore_vars == <<heads, statuses, logged_keys>>

PassRecord(command, flag, modified) ==
    [cmd |-> command, delete_orphans |-> flag, modified |-> modified]

NoPass == PassRecord("none", FALSE, {})

(***************************************************************************)
(* Bounds of the model.                                                    *)
(***************************************************************************)
MaxInode == 2
MaxSize == 2
MaxMtime == 1
MaxPasses == 2
MaxFileSize == 1

UserInodes == 1..MaxInode
Sizes == 1..MaxSize
Mtimes == 0..MaxMtime
FileSizes == 1..MaxFileSize
UserPaths == {"a.txt", "b.txt"}
PlanPaths == UserPaths \cup {"c.txt"}

Range(s) == {s[n] : n \in DOMAIN s}

(***************************************************************************)
(* Files the tool itself writes below source_path.  Neither name starts    *)
(* with a dot, so the scanner reports them like any other file.            *)
(***************************************************************************)
SourcePath == "/src"
RESTORE_LOG_FILE == "archive_restore_needed.log"

\* Logger.start(): logs/s3-sync-<command>-<timestamp>.log, one name per second.
LogFileNames ==
    [sync  |-> <<"logs/s3-sync-sync-00-00-01.log", "logs/s3-sync-sync-00-00-02.log",
                 "logs/s3-sync-sync-00-00-03.log", "logs/s3-sync-sync-00-00-04.log">>,
     moves |-> <<"logs/s3-sync-moves-00-00-01.log", "logs/s3-sync-moves-00-00-02.log",
                 "logs/s3-sync-moves-00-00-03.log", "logs/s3-sync-moves-00-00-04.log">>]

log_file(command, second) == LogFileNames[command][second]

\* list_objects_v2 returns keys in ascending UTF-8 order; dicts keep that order.
\* sorted() of Python orders these names the same way.
KeyOrder ==
    <<"#b.txt", "a.txt", "a.txt ", "archive_restore_needed.log", "b.txt", "c.txt">>
    \o LogFileNames.moves \o LogFileNames.sync

AbsPath(path) == <<SourcePath, path>>

ScannedFile(path, inode, size, mtime) ==
    [path |-> path, abs_path |-> AbsPath(path), inode |-> inode,
     size |-> size, mtime |-> mtime]

FileRecord(path, inode, size, mtime, synced) ==
    [path |-> path, inode |-> inode, size |-> size, mtime |-> mtime,
     synced |-> synced]

S3Object(key, size, etag) == [key |-> key, size |-> size, etag |-> etag]

(***************************************************************************)
(* DiffEngine.compute_plan                                                 *)
(***************************************************************************)
SyncPlan == [moves |-> <<>>, uploads |-> <<>>, deletes |-> <<>>]

\* Mutant of RenameBranch: the move is queued without looking the old path up
\* in the remote listing.
RenameBranch_NoListingCheck(current_file, previous, s3_objects_, acc) ==
    [acc EXCEPT
        !.moves = Append(@, <<previous.path, current_file.path>>),
        !.accounted = @ \cup {previous.path, current_file.path}]

\* Mutant of RenameBranch: the pair of the move is queued new path first.
RenameBranch_SwappedPair(current_file, previous, s3_objects_, acc) ==
    IF previous.path \in DOMAIN s3_objects_
    THEN [acc EXCEPT
            !.moves = Append(@, <<current_file.path, previous.path>>),
            !.accounted = @ \cup {previous.path, current_file.path}]
    ELSE [acc EXCEPT
            !.uploads = Append(@, <<current_file.abs_path, current_file.path>>),
            !.accounted = @ \cup {current_file.path}]

\* previous.path != current_file.path: the rename branch.
RenameBranch(current_file, previous, s3_objects_, acc) ==
    IF previous.path \in DOMAIN s3_objects_
    THEN [acc EXCEPT
            !.moves = Append(@, <<previous.path, current_file.path>>),
            !.accounted = @ \cup {previous.path, current_file.path}]
    ELSE [acc EXCEPT
            !.uploads = Append(@, <<current_file.abs_path, current_file.path>>),
            !.accounted = @ \cup {current_file.path}]

\* Mutant of FileModified: any difference of the modification time counts.
FileModified_MtimeDiffers(current_file, previous) ==
    \/ current_file.size # previous.size
    \/ current_file.mtime # previous.mtime

FileModified(current_file, previous) ==
    \/ current_file.size # previous.size
    \/ current_file.mtime > previous.mtime

\* Mutant of SamePathBranch: an unchanged file is not marked accounted.
SamePathBranch_UnchangedNotAccounted(current_file, previous, acc) ==
    IF current_file.size # previous.size \/ current_file.mtime > previous.mtime
    THEN [acc EXCEPT
            !.uploads = Append(@, <<current_file.abs_path, current_file.path>>),
            !.accounted = @ \cup {current_file.path}]
    ELSE acc

\* previous.path == current_file.path: modified or unchanged.
SamePathBranch(current_file, previous, acc) ==
    IF FileModified(current_file, previous)
    THEN [acc EXCEPT
            !.uploads = Append(@, <<current_file.abs_path, current_file.path>>),
            !.accounted = @ \cup {current_file.path}]
    ELSE [acc EXCEPT !.accounted = @ \cup {current_file.path}]

\* Mutant of NewFileBranch: the key is marked accounted only when it is uploaded.
NewFileBranch_AccountedInsideIf(current_file, s3_objects_, acc) ==
    IF current_file.path \notin DOMAIN s3_objects_
    THEN [acc EXCEPT
            !.uploads = Append(@, <<current_file.abs_path, current_file.path>>),
            !.accounted = @ \cup {current_file.path}]
    ELSE acc

\* previous is None: inode not seen before.
NewFileBranch(current_file, s3_objects_, acc) ==
    LET up == IF current_file.path \notin DOMAIN s3_objects_
              THEN [acc EXCEPT
                      !.uploads = Append(@, <<current_file.abs_path, current_file.path>>)]
              ELSE acc
    IN  [up EXCEPT !.accounted = @ \cup {current_file.path}]

\* Mutant of Step1: a renamed file is also compared with its record, and
\* uploaded as well when it was modified.
Step1_RenameThenModified(current_file, previous_records_, s3_objects_, acc) ==
    IF current_file.inode \in DOMAIN previous_records_
    THEN LET previous == previous_records_[current_file.inode]
         IN  IF previous.path # current_file.path
             THEN LET renamed == RenameBranch(current_file, previous, s3_objects_, acc)
                  IN  IF FileModified(current_file, previous)
                      THEN [renamed EXCEPT
                              !.uploads = Append(@, <<current_file.abs_path,
                                                      current_file.path>>)]
                      ELSE renamed
             ELSE SamePathBranch(current_file, previous, acc)
    ELSE NewFileBranch(current_file, s3_objects_, acc)

\* One iteration of the loop over current_files.items().
Step1(current_file, previous_records_, s3_objects_, acc) ==
    IF current_file.inode \in DOMAIN previous_records_
    THEN LET previous == previous_records_[current_file.inode]
         IN  IF previous.path # current_file.path
             THEN RenameBranch(current_file, previous, s3_objects_, acc)
             ELSE SamePathBranch(current_file, previous, acc)
    ELSE NewFileBranch(current_file, s3_objects_, acc)

RECURSIVE Step1Loop(_, _, _, _, _)
Step1Loop(current_files_, previous_records_, s3_objects_, n, acc) ==
    IF n > Len(current_files_)
    THEN acc
    ELSE Step1Loop(current_files_, previous_records_, s3_objects_, n + 1,
                   Step1(current_files_[n], previous_records_, s3_objects_, acc))

\* accounted_s3_keys after step 1.
accounted_s3_keys(current_files_, previous_records_, s3_objects_) ==
    Step1Loop(current_files_, previous_records_, s3_objects_, 1,
              [moves |-> <<>>, uploads |-> <<>>, accounted |-> {}]).accounted

\* Mutant of OrphanPass: every listed key is an orphan, accounted or not.
OrphanPass_IgnoresAccounted(s3_objects_, accounted, delete_orphans_) ==
    IF delete_orphans_
    THEN SelectSeq(KeyOrder, LAMBDA s3_key : s3_key \in DOMAIN s3_objects_)
    ELSE <<>>

\* Mutant of OrphanPass: orphans are queued whatever the flag says.
OrphanPass_IgnoresFlag(s3_objects_, accounted, delete_orphans_) ==
    SelectSeq(KeyOrder,
              LAMBDA s3_key : s3_key \in DOMAIN s3_objects_ /\ s3_key \notin accounted)

\* Step 2: the orphan pass.
OrphanPass(s3_objects_, accounted, delete_orphans_) ==
    IF delete_orphans_
    THEN SelectSeq(KeyOrder,
                   LAMBDA s3_key : s3_key \in DOMAIN s3_objects_ /\ s3_key \notin accounted)
    ELSE <<>>

compute_plan(current_files_, previous_records_, s3_objects_, delete_orphans_) ==
    LET acc == Step1Loop(current_files_, previous_records_, s3_objects_, 1,
                         [moves |-> <<>>, uploads |-> <<>>, accounted |-> {}])
    IN  [moves   |-> acc.moves,
         uploads |-> acc.uploads,
         deletes |-> OrphanPass(s3_objects_, acc.accounted, delete_orphans_)]

(***************************************************************************)
(* The planner on its own: every combination of scan, index records,       *)
(* remote listing and flag, then one call of compute_plan.                 *)
(***************************************************************************)
PlanScannedFiles ==
    {ScannedFile(p, i, s, m) : p \in PlanPaths, i \in UserInodes, s \in Sizes, m \in Mtimes}

\* A dict keyed by inode of files of one directory tree: inodes and paths distinct.
PlanScans ==
    {s \in UNION {[1..n -> PlanScannedFiles] : n \in 0..MaxInode} :
        \A j, k \in DOMAIN s :
            j # k => s[j].inode # s[k].inode /\ s[j].path # s[k].path}

PlanFileRecords ==
    {FileRecord(p, i, s, m, TRUE) : p \in PlanPaths, i \in UserInodes, s \in Sizes, m \in Mtimes}

\* get_all_records(): keyed by inode, rows of a table whose primary key is path.
PlanPrevious ==
    {f \in UNION {[I -> PlanFileRecords] : I \in SUBSET UserInodes} :
        /\ \A i \in DOMAIN f : f[i].inode = i
        /\ \A i, j \in DOMAIN f : i # j => f[i].path # f[j].path}

PlanListings ==
    {[k \in K |-> S3Object(k, 1, "etag")] : K \in SUBSET PlanPaths}

InitPlan ==
    /\ pc = "plan_input"
    /\ current_files \in PlanScans
    /\ previous_records \in PlanPrevious
    /\ s3_objects \in PlanListings
    /\ delete_orphans \in BOOLEAN
    /\ plan = SyncPlan
    /\ fs = {} /\ db = {} /\ remote = <<>>
    /\ restore_log = [exists |-> FALSE, text |-> ""]
    /\ now = 0 /\ passes = 0 /\ cmd = "sync" /\ dry_run = FALSE
    /\ idx = 1 /\ pending_keys = {} /\ calls = <<>> /\ db_writes = <<>>
    /\ report = "none"
    /\ archived_moves = {} /\ moved_edits = {} /\ previous_pass = NoPass /\ source_kind = "dir" /\ heads = <<>> /\ statuses = <<>> /\ logged_keys = {}

ComputePlan ==
    /\ pc = "plan_input"
    /\ plan' = compute_plan(current_files, previous_records, s3_objects, delete_orphans)
    /\ pc' = "planned"
    /\ UNCHANGED <<fs, db, remote, restore_log, now, passes, cmd, dry_run,
                   delete_orphans, previous_records, current_files, s3_objects,
                   idx, pending_keys, calls, db_writes, report, archived_moves, moved_edits, previous_pass, source_kind>>
    /\ UNCHANGED restore_vars

NextPlan == ComputePlan

SpecPlan == InitPlan /\ [][NextPlan]_vars

(***************************************************************************)
(* Properties of the plan.                                                 *)
(***************************************************************************)
AllKeys == Range(KeyOrder)

MoveSources(p) == {p.moves[n][1] : n \in DOMAIN p.moves}
MoveDestinations(p) == {p.moves[n][2] : n \in DOMAIN p.moves}
UploadKeys(p) == {p.uploads[n][2] : n \in DOMAIN p.uploads}
DeleteKeys(p) == Range(p.deletes)

\* Number of places of plan p that name key k.
KeyUses(p, k) ==
      Cardinality({n \in DOMAIN p.moves : p.moves[n][1] = k})
    + Cardinality({n \in DOMAIN p.moves : p.moves[n][2] = k})
    + Cardinality({n \in DOMAIN p.uploads : p.uploads[n][2] = k})
    + Cardinality({n \in DOMAIN p.deletes : p.deletes[n] = k})

CurrentPaths == {current_files[n].path : n \in DOMAIN current_files}

HasPrevious(f) == f.inode \in DOMAIN previous_records
PreviousOf(f) == previous_records[f.inode]

\* f was renamed since the index was written.
Renamed(f) == HasPrevious(f) /\ PreviousOf(f).path # f.path
\* f is where the index has it.
SamePath(f) == HasPrevious(f) /\ PreviousOf(f).path = f.path

\* C1: no remote key is named by more than one place of the plan (a move's
\* source, a move's destination, an upload's key, a delete's key).
C1_AccountingInvariant ==
    pc = "planned" => \A k \in AllKeys : KeyUses(plan, k) <= 1

\* C2: a file renamed from a to b whose old path a is listed remotely gets the
\* move (a, b), and a and b are named nowhere else in the plan.
C2_RenamePrecedence ==
    pc = "planned" =>
        \A f \in Range(current_files) :
            (Renamed(f) /\ PreviousOf(f).path \in DOMAIN s3_objects) =>
                /\ <<PreviousOf(f).path, f.path>> \in Range(plan.moves)
                /\ KeyUses(plan, PreviousOf(f).path) = 1
                /\ KeyUses(plan, f.path) = 1

\* C3: a file renamed from a to b whose old path a is not listed remotely gets
\* the upload (absolute path of b, b), and the plan has no move from a and no
\* move to b.
C3_RenameFallback ==
    pc = "planned" =>
        \A f \in Range(current_files) :
            (Renamed(f) /\ PreviousOf(f).path \notin DOMAIN s3_objects) =>
                /\ <<AbsPath(f.path), f.path>> \in Range(plan.uploads)
                /\ PreviousOf(f).path \notin MoveSources(plan)
                /\ f.path \notin MoveDestinations(plan)

\* A renamed file falls back to an upload in a plan that also moves another file.
C3_Witness ==
    /\ pc = "planned"
    /\ \E f \in Range(current_files) :
           /\ Renamed(f) /\ PreviousOf(f).path \notin DOMAIN s3_objects
           /\ <<AbsPath(f.path), f.path>> \in Range(plan.uploads)
    /\ plan.moves # <<>>

\* C4: a file whose path, size and modification time equal its index record is
\* named by no move, no upload and no delete of the plan.
C4_UnchangedNoAction ==
    pc = "planned" =>
        \A f \in Range(current_files) :
            (SamePath(f) /\ f.size = PreviousOf(f).size /\ f.mtime = PreviousOf(f).mtime) =>
                /\ f.path \notin MoveSources(plan) \cup MoveDestinations(plan)
                /\ f.path \notin UploadKeys(plan)
                /\ f.path \notin DeleteKeys(plan)

\* An unchanged file that is listed remotely, in a plan that deletes orphans.
C4_Witness ==
    /\ pc = "planned" /\ delete_orphans /\ plan.deletes # <<>>
    /\ \E f \in Range(current_files) :
           /\ SamePath(f) /\ f.size = PreviousOf(f).size /\ f.mtime = PreviousOf(f).mtime
           /\ f.path \in DOMAIN s3_objects

\* C5: for a file at its recorded path, an upload of the path is planned
\* exactly when the size differs or the modification time has grown.
C5_ModificationOneDirectional ==
    pc = "planned" =>
        \A f \in Range(current_files) :
            SamePath(f) =>
                /\ (f.path \in UploadKeys(plan)) <=>
                       (f.size # PreviousOf(f).size \/ f.mtime > PreviousOf(f).mtime)
                /\ (f.size = PreviousOf(f).size /\ f.mtime <= PreviousOf(f).mtime) =>
                       KeyUses(plan, f.path) = 0

\* One file with an older modification time and no upload, another with a newer
\* one and an upload, both of unchanged size.
C5_Witness ==
    /\ pc = "planned"
    /\ \E f, g \in Range(current_files) :
           /\ SamePath(f) /\ f.size = PreviousOf(f).size /\ f.mtime < PreviousOf(f).mtime
           /\ f.path \notin UploadKeys(plan)
           /\ SamePath(g) /\ g.size = PreviousOf(g).size /\ g.mtime > PreviousOf(g).mtime
           /\ g.path \in UploadKeys(plan)

\* C6: a file whose inode has no index record is uploaded exactly when its path
\* is not listed remotely, and its path is never deleted.
C6_NewIdentity ==
    pc = "planned" =>
        \A f \in Range(current_files) :
            ~HasPrevious(f) =>
                /\ (f.path \in UploadKeys(plan)) <=> (f.path \notin DOMAIN s3_objects)
                /\ f.path \notin DeleteKeys(plan)

\* A new file already listed remotely (no upload) beside a new file that is
\* uploaded, with the orphan pass on.
C6_Witness ==
    /\ pc = "planned" /\ delete_orphans
    /\ \E f, g \in Range(current_files) :
           /\ ~HasPrevious(f) /\ f.path \in DOMAIN s3_objects
           /\ f.path \notin UploadKeys(plan)
           /\ ~HasPrevious(g) /\ g.path \in UploadKeys(plan)

\* Paths the index tracked that the scan no longer has and the listing still has.
GonePaths ==
    {r.path : r \in Range(previous_records)} \ CurrentPaths

\* C8 as stated: with the flag set the deletes are the listed keys not marked
\* accounted, none of them a move endpoint, an upload key or a scanned path,
\* and every tracked path gone from the scan and listed remotely is deleted.
C8_OrphanPassAsStated ==
    (pc = "planned" /\ delete_orphans) =>
        /\ DeleteKeys(plan) =
               DOMAIN s3_objects \
                   accounted_s3_keys(current_files, previous_records, s3_objects)
        /\ DeleteKeys(plan) \cap (MoveSources(plan) \cup MoveDestinations(plan)
                                  \cup UploadKeys(plan) \cup CurrentPaths) = {}
        /\ \A k \in GonePaths : k \in DOMAIN s3_objects => k \in DeleteKeys(plan)

\* C8 amended: the same, with a tracked path gone from the scan deleted unless
\* it is the source of a planned move.
C8_OrphanPass ==
    (pc = "planned" /\ delete_orphans) =>
        /\ DeleteKeys(plan) =
               DOMAIN s3_objects \
                   accounted_s3_keys(current_files, previous_records, s3_objects)
        /\ DeleteKeys(plan) = DOMAIN s3_objects \ (CurrentPaths \cup MoveSources(plan))
        /\ \A k \in AllKeys : Cardinality({n \in DOMAIN plan.deletes : plan.deletes[n] = k}) <= 1
        /\ DeleteKeys(plan) \cap (MoveSources(plan) \cup MoveDestinations(plan)
                                  \cup UploadKeys(plan) \cup CurrentPaths) = {}
        /\ \A k \in GonePaths :
               (k \in DOMAIN s3_objects /\ k \notin MoveSources(plan)) => k \in DeleteKeys(plan)

\* A plan that moves one file and deletes the path of a file that is gone.
C8_Witness ==
    /\ pc = "planned" /\ delete_orphans
    /\ plan.moves # <<>>
    /\ \E k \in GonePaths : k \in DOMAIN s3_objects /\ k \in DeleteKeys(plan)

(***************************************************************************)
(* The local tree.  A file is [inode, path, size, mtime]; the index file   *)
(* .s3-smart-sync.db is hidden and never scanned.                          *)
(***************************************************************************)
File(inode, path, size, mtime) ==
    [inode |-> inode, path |-> path, size |-> size, mtime |-> mtime]

ToolPaths == <<RESTORE_LOG_FILE>> \o LogFileNames.moves \o LogFileNames.sync

\* The files the tool writes are never renamed, so each keeps one inode.
ToolInode(path) == MaxInode + (CHOOSE n \in DOMAIN ToolPaths : ToolPaths[n] = path)

UserFiles(fs_) == {f \in fs_ : f.inode \in UserInodes}

\* Trees of the user's own files: one inode per path, one path per inode.
UserTrees ==
    {t \in SUBSET {File(i, p, s, m) : i \in UserInodes, p \in UserPaths,
                                      s \in FileSizes, m \in Mtimes} :
        \A f, g \in t : f # g => f.inode # g.inode /\ f.path # g.path}

FileAt(fs_, path) == CHOOSE f \in fs_ : f.path = path

\* Logger.start(): open(log_file, 'w') creates the file of this second, or
\* truncates it when a run of the same command already wrote it this second;
\* the header is flushed at once.  sub is what the rewrite adds to the file's
\* modification time (0 where the filesystem's timestamps are too coarse to
\* tell the two writes apart).
LoggerStart(fs_, command, second, sub) ==
    LET path == log_file(command, second)
        old  == {f \in fs_ : f.path = path}
        mt   == IF old = {} THEN 10 * second
                ELSE (CHOOSE f \in old : TRUE).mtime + sub
    IN  (fs_ \ old) \cup {File(ToolInode(path), path, 1, mt)}

\* Logger.close(): the lines logged after the scan have made the file longer.
LoggerClose(fs_, command, second) ==
    LET path == log_file(command, second)
        old  == FileAt(fs_, path)
    IN  (fs_ \ {old}) \cup {File(old.inode, path, 2, old.mtime)}

\* Scanner.scan_to_dict(): the files in os.walk order, here by inode (the user's
\* files, whose inode numbers are arbitrary, before the tool's).
RECURSIVE scan_from(_, _)
scan_from(fs_, inode) ==
    IF \A f \in fs_ : f.inode < inode
    THEN <<>>
    ELSE LET here == {f \in fs_ : f.inode = inode}
         IN  (IF here = {} THEN <<>>
              ELSE LET f == CHOOSE g \in here : TRUE
                   IN  <<ScannedFile(f.path, f.inode, f.size, f.mtime)>>)
             \o scan_from(fs_, inode + 1)

scan_to_dict(fs_) == scan_from(fs_, 1)

(***************************************************************************)
(* Database (db.py): the table `files`, primary key path.                  *)
(***************************************************************************)
\* get_all_records(): one dict entry per inode; of several rows with one inode
\* the last row fetched wins, and the SELECT has no ORDER BY.
get_all_records(db_) ==
    {d \in [{r.inode : r \in db_} -> db_] : \A i \in DOMAIN d : d[i].inode = i}

bulk_upsert(db_, records) ==
    {r \in db_ : \A n \in records : n.path # r.path} \cup records

\* Mutant of delete_missing_paths: the missing paths are returned, no row is deleted.
delete_missing_paths_NoDelete(db_, current_paths) ==
    LET all_paths == {r.path : r \in db_}
        missing   == all_paths \ current_paths
    IN  [db |-> db_, missing |-> missing]

\* delete_missing_paths(): DELETE FROM files WHERE path IN (missing); the list
\* returned is list(missing).
delete_missing_paths(db_, current_paths) ==
    LET all_paths == {r.path : r \in db_}
        missing   == all_paths \ current_paths
    IN  [db      |-> IF missing # {} THEN {r \in db_ : r.path \notin missing} ELSE db_,
         missing |-> missing]

(***************************************************************************)
(* S3Client (s3_client.py).  The bucket maps a key to the content stored   *)
(* under it: the inode, size and mtime of the local file it was read from. *)
(***************************************************************************)
Content(f) == [inode |-> f.inode, size |-> f.size, mtime |-> f.mtime]

Put(bucket, key, content) ==
    [k \in DOMAIN bucket \cup {key} |-> IF k = key THEN content ELSE bucket[k]]

Remove(bucket, keys) == [k \in DOMAIN bucket \ keys |-> bucket[k]]

list_objects(bucket) ==
    [k \in DOMAIN bucket |-> S3Object(k, bucket[k].size, bucket[k])]

\* upload_file: True with the object written, or False on a ClientError.
upload_file(bucket, fs_, local_path, key) ==
    LET f == CHOOSE g \in fs_ : AbsPath(g.path) = local_path
    IN  {[result |-> TRUE,  remote |-> Put(bucket, key, Content(f))],
         [result |-> FALSE, remote |-> bucket]}

\* delete_objects: batches of DeleteBatchSize keys; a batch either raises a
\* ClientError or answers with the keys it deleted.
DeleteBatchSize == 1000

\* Mutant of Batch: the slice runs one key further.
Batch_OneKeyMore(keys, from) ==
    SubSeq(keys, from,
           IF from + DeleteBatchSize < Len(keys)
           THEN from + DeleteBatchSize ELSE Len(keys))

\* batch = keys[i:i+1000], with from = i + 1.
Batch(keys, from) ==
    SubSeq(keys, from,
           IF from + DeleteBatchSize - 1 < Len(keys)
           THEN from + DeleteBatchSize - 1 ELSE Len(keys))

\* What client.delete_objects answers to a batch: a ClientError, or a response
\* whose 'Deleted' list names some of the keys sent.  Of a full batch the
\* answers taken are those that name none of its keys, the first key alone,
\* all keys but the last, and all keys.
BatchResponses(batch) ==
    LET sent == Range(batch)
    IN  {[error |-> TRUE, deleted |-> {}]}
        \cup {[error |-> FALSE, deleted |-> d] :
                 d \in IF Len(batch) >= DeleteBatchSize
                       THEN {{}, {batch[1]}, sent \ {batch[Len(batch)]}, sent}
                       ELSE SUBSET sent}

RECURSIVE BatchOutcomes(_, _, _)
BatchOutcomes(bucket, keys, from) ==
    IF from > Len(keys)
    THEN {[deleted_count |-> 0, confirmed |-> {}, remote |-> bucket, batches |-> <<>>]}
    ELSE LET batch == Batch(keys, from)
         IN  UNION {
               {[deleted_count |-> Cardinality(response.deleted) + rest.deleted_count,
                 confirmed     |-> response.deleted \cup rest.confirmed,
                 remote        |-> rest.remote,
                 batches       |-> <<[keys |-> batch, response |-> response]>>
                                       \o rest.batches]
                  : rest \in BatchOutcomes(Remove(bucket, response.deleted), keys,
                                           from + DeleteBatchSize)}
               : response \in BatchResponses(batch)}

delete_objects(bucket, keys) ==
    IF keys = <<>>
    THEN {[deleted_count |-> 0, confirmed |-> {}, remote |-> bucket, batches |-> <<>>]}
    ELSE BatchOutcomes(bucket, keys, 1)

\* move_object: copy_object, then delete_object of the source.  A ClientError of
\* either call ends the move: 'archived' for InvalidObjectState, 'error' otherwise.
move_object(bucket, old_key, new_key) ==
    IF old_key \in DOMAIN bucket
    THEN {[result |-> "success",
           remote |-> Remove(Put(bucket, new_key, bucket[old_key]), {old_key})],
          [result |-> "archived", remote |-> bucket],
          [result |-> "error", remote |-> bucket],
          [result |-> "error", remote |-> Put(bucket, new_key, bucket[old_key])]}
    ELSE {[result |-> "error", remote |-> bucket]}

(***************************************************************************)
(* ArchiveHandler (archive_handler.py)                                     *)
(***************************************************************************)
\* for key in sorted(self._pending_keys): f.write(f"{key}\n")
RECURSIVE WriteKeys(_)
WriteKeys(keys) ==
    IF keys = <<>> THEN "" ELSE Head(keys) \o "\n" \o WriteKeys(Tail(keys))

\* save_log(): appends a comment line, the pending keys sorted, a blank line.
save_log(log, pending) ==
    IF pending = {}
    THEN log
    ELSE [exists |-> TRUE,
          text   |-> log.text \o "# Logged at T\n"
                     \o WriteKeys(SelectSeq(KeyOrder, LAMBDA k : k \in pending))
                     \o "\n"]

\* `for line in f`: the text cut after every newline, the newline kept.
RECURSIVE ReadLines(_, _)
ReadLines(text, line) ==
    IF text = ""
    THEN IF line = "" THEN <<>> ELSE <<line>>
    ELSE IF Head(text) = "\n"
         THEN <<line \o "\n">> \o ReadLines(Tail(text), "")
         ELSE ReadLines(Tail(text), line \o Head(text))

Whitespace == {" ", "\t", "\n", "\r"}

RECURSIVE LStrip(_)
LStrip(line) ==
    IF line # "" /\ Head(line) \in Whitespace THEN LStrip(Tail(line)) ELSE line

RECURSIVE RStrip(_)
RStrip(line) ==
    IF line # "" /\ SubSeq(line, Len(line), Len(line)) \in Whitespace
    THEN RStrip(SubSeq(line, 1, Len(line) - 1))
    ELSE line

\* str.strip()
Strip(line) == RStrip(LStrip(line))

\* str.startswith(prefix)
StartsWith(line, prefix) ==
    Len(line) >= Len(prefix) /\ SubSeq(line, 1, Len(prefix)) = prefix

\* keys = [line.strip() for line in f if line.strip() and not line.strip().startswith('#')]
ParseKeys(text) ==
    LET lines == ReadLines(text, "")
        kept  == SelectSeq([n \in DOMAIN lines |-> Strip(lines[n])],
                           LAMBDA line : line # "" /\ ~StartsWith(line, "#"))
    IN  kept

\* list(set(keys)): every key once, in the order of first occurrence here (the
\* order of a Python set is not specified).
RemoveDuplicates(keys) ==
    SelectSeq([n \in DOMAIN keys |->
                  IF \E m \in 1..(n - 1) : keys[m] = keys[n] THEN "" ELSE keys[n]],
              LAMBDA key : key # "")

\* load_pending_keys(): [] when the file does not exist.
load_pending_keys(log) ==
    IF ~log.exists THEN <<>> ELSE RemoveDuplicates(ParseKeys(log.text))

\* clear_log(): os.remove(log_path) when the file exists.
clear_log(log) == [exists |-> FALSE, text |-> ""]

\* The restore log is a file below source_path: saving it creates or grows it.
RestoreLogFile(fs_, log, second) ==
    IF log.exists
    THEN {f \in fs_ : f.path # RESTORE_LOG_FILE}
         \cup {File(ToolInode(RESTORE_LOG_FILE), RESTORE_LOG_FILE, Len(log.text), 10 * second)}
    ELSE fs_

(***************************************************************************)
(* cmd_sync and cmd_moves (main.py): one pass is the start (logger, index, *)
(* scan, listing, plan), then one step per remote call, then the index     *)
(* update and the end of the run.                                          *)
(***************************************************************************)
\* Mutant of PhaseOrder: uploads run before deletes.
PhaseOrder_UploadsBeforeDeletes == <<"moves", "uploads", "deletes">>

\* The order of the three blocks that execute the plan.
PhaseOrder == <<"moves", "deletes", "uploads">>

PhaseWork(plan_, phase) ==
    CASE phase = "moves"   -> plan_.moves
      [] phase = "deletes" -> plan_.deletes
      [] phase = "uploads" -> plan_.uploads

\* The block that runs after the first n blocks: each is skipped when its list
\* is empty (`if plan.moves:` ...), and cmd_moves has the moves block only.
PhaseAfter(command, plan_, n) ==
    LET last == IF command = "moves" THEN 1 ELSE Len(PhaseOrder)
        todo == {m \in (n + 1)..last : PhaseWork(plan_, PhaseOrder[m]) # <<>>}
    IN  IF todo = {} THEN "update_db"
        ELSE PhaseOrder[CHOOSE m \in todo : \A o \in todo : m <= o]

PhaseIndex(phase) == CHOOSE n \in DOMAIN PhaseOrder : PhaseOrder[n] = phase

\* records = [FileRecord(..., synced=True) for f in current_files.values()]
SnapshotRecords(current_files_) ==
    {FileRecord(f.path, f.inode, f.size, f.mtime, TRUE) : f \in Range(current_files_)}

\* db.bulk_upsert(records); db.delete_missing_paths(current_paths)
UpdateIndex(db_, current_files_) ==
    delete_missing_paths(bulk_upsert(db_, SnapshotRecords(current_files_)),
                         {f.path : f \in Range(current_files_)}).db

PlanIsEmpty(plan_) ==
    plan_.moves = <<>> /\ plan_.uploads = <<>> /\ plan_.deletes = <<>>

\* Before the first run the bucket is empty or holds an object that some other
\* tool stored under the prefix.
InitialBuckets ==
    {<<>>, Put(<<>>, "c.txt", [inode |-> 0, size |-> 1, mtime |-> 0])}

Init ==
    /\ fs = {} /\ db = {} /\ remote \in InitialBuckets
    /\ restore_log = [exists |-> FALSE, text |-> ""]
    /\ now = 0 /\ passes = 0
    /\ pc = "idle" /\ cmd = "sync" /\ dry_run = FALSE /\ delete_orphans = FALSE
    /\ previous_records = <<>> /\ current_files = <<>> /\ s3_objects = <<>>
    /\ plan = SyncPlan /\ idx = 1 /\ pending_keys = {}
    /\ calls = <<>> /\ db_writes = <<>> /\ report = "none"
    /\ archived_moves = {} /\ moved_edits = {} /\ previous_pass = NoPass /\ source_kind \in {"dir", "missing", "file"} /\ heads = <<>> /\ statuses = <<>> /\ logged_keys = {}

\* The user changes the tree between two runs in any way: files created,
\* removed, renamed, rewritten, touched, inode numbers reused.
LocalChange ==
    /\ pc = "idle" /\ passes < MaxPasses /\ source_kind = "dir"
    /\ \E tree \in UserTrees :
           /\ tree # UserFiles(fs)
           /\ fs' = (fs \ UserFiles(fs)) \cup tree
    /\ archived_moves' = {} /\ moved_edits' = {} /\ previous_pass' = NoPass
    /\ UNCHANGED <<restore_vars, source_kind>>
    /\ UNCHANGED <<db, remote, restore_log, now, passes, pc, cmd, dry_run,
                   delete_orphans, previous_records, current_files, s3_objects,
                   plan, idx, pending_keys, calls, db_writes, report>>

\* Logger.start() runs before the source is validated and begins with
\* os.makedirs(<source_path>/logs, exist_ok=True).  Below a directory the call
\* succeeds; below a path that names something else it raises
\* NotADirectoryError; where nothing exists it creates source_path itself and
\* logs below it, or raises when the parent does not allow that.
MakedirsSucceeds(kind) == kind \in {"dir", "missing"}

MakedirsRaises(kind) == kind \in {"file", "missing"}

\* The exception of Logger.start() is caught nowhere: the process ends with a
\* traceback, before the source is validated and before any component exists.
DiesInLoggerStart(command) ==
    /\ cmd' = command /\ dry_run' = FALSE /\ delete_orphans' = FALSE
    /\ now' = now /\ passes' = passes + 1
    /\ previous_records' = <<>> /\ current_files' = <<>> /\ s3_objects' = <<>>
    /\ plan' = SyncPlan
    /\ report' = "traceback" /\ pc' = "done"
    /\ source_kind' = source_kind

\* cmd_sync up to the plan: an empty plan ends the run at once.
StartSync ==
    /\ pc = "idle" /\ passes < MaxPasses
    /\ \/ /\ MakedirsRaises(source_kind)
          /\ DiesInLoggerStart("sync")
          /\ fs' = fs
       \/ \E dr \in BOOLEAN, del \in BOOLEAN, second \in {now, now + 1} \ {0},
             sub \in {0, 1}, previous \in get_all_records(db) :
           /\ MakedirsSucceeds(source_kind)
           /\ source_kind' = "dir"
           /\ sub = 1 => \E f \in fs : f.path = log_file("sync", second)
           /\ LET started == LoggerStart(fs, "sync", second, sub)
                  scan    == scan_to_dict(started)
                  listing == list_objects(remote)
                  p       == compute_plan(scan, previous, listing, del)
              IN  /\ cmd' = "sync" /\ dry_run' = dr /\ delete_orphans' = del
                  /\ now' = second /\ passes' = passes + 1
                  /\ previous_records' = previous
                  /\ current_files' = scan
                  /\ s3_objects' = listing
                  /\ plan' = p
                  /\ IF PlanIsEmpty(p)
                     THEN /\ report' = "in_sync"
                          /\ pc' = "done"
                          /\ fs' = LoggerClose(started, "sync", second)
                     ELSE /\ report' = "running"
                          /\ pc' = PhaseAfter("sync", p, 0)
                          /\ fs' = started
    /\ idx' = 1 /\ pending_keys' = {} /\ calls' = <<>> /\ db_writes' = <<>>
    /\ UNCHANGED <<db, remote, restore_log, archived_moves, moved_edits, previous_pass>>
    /\ UNCHANGED restore_vars

\* cmd_moves up to the plan: without a move the index is upserted (not pruned)
\* and the run ends.
StartMoves ==
    /\ pc = "idle" /\ passes < MaxPasses
    /\ \/ /\ MakedirsRaises(source_kind)
          /\ DiesInLoggerStart("moves")
          /\ fs' = fs /\ db' = db /\ db_writes' = <<>>
       \/ \E dr \in BOOLEAN, second \in {now, now + 1} \ {0},
             sub \in {0, 1}, previous \in get_all_records(db) :
           /\ MakedirsSucceeds(source_kind)
           /\ source_kind' = "dir"
           /\ sub = 1 => \E f \in fs : f.path = log_file("moves", second)
           /\ LET started == LoggerStart(fs, "moves", second, sub)
                  scan    == scan_to_dict(started)
                  listing == list_objects(remote)
                  p       == compute_plan(scan, previous, listing, FALSE)
              IN  /\ cmd' = "moves" /\ dry_run' = dr /\ delete_orphans' = FALSE
                  /\ now' = second /\ passes' = passes + 1
                  /\ previous_records' = previous
                  /\ current_files' = scan
                  /\ s3_objects' = listing
                  /\ plan' = p
                  /\ IF p.moves = <<>>
                     THEN /\ report' = "no_renames"
                          /\ pc' = "done"
                          /\ fs' = LoggerClose(started, "moves", second)
                          /\ IF dr
                             THEN db' = db /\ db_writes' = <<>>
                             ELSE /\ db' = bulk_upsert(db, SnapshotRecords(scan))
                                  /\ db_writes' = <<"bulk_upsert">>
                     ELSE /\ report' = "running"
                          /\ pc' = "moves"
                          /\ fs' = started
                          /\ db' = db /\ db_writes' = <<>>
    /\ idx' = 1 /\ pending_keys' = {} /\ calls' = <<>>
    /\ UNCHANGED <<remote, restore_log, archived_moves, moved_edits, previous_pass>>
    /\ UNCHANGED restore_vars

\* idx' and pc' after item idx of a block of n items.
Advance(n) ==
    IF idx < n
    THEN idx' = idx + 1 /\ pc' = pc
    ELSE idx' = 1 /\ pc' = PhaseAfter(cmd, plan, PhaseIndex(pc))

\* for old_key, new_key in plan.moves: s3.move_object(old_key, new_key, archive_handler)
MoveStep ==
    /\ pc = "moves"
    /\ LET old_key == plan.moves[idx][1]
           new_key == plan.moves[idx][2]
       IN  IF dry_run
           THEN UNCHANGED <<remote, pending_keys, calls>>
           ELSE \E out \in move_object(remote, old_key, new_key) :
                    /\ remote' = out.remote
                    /\ pending_keys' = IF out.result = "archived"
                                       THEN pending_keys \cup {old_key}
                                       ELSE pending_keys
                    /\ calls' = Append(calls, [op |-> "move", key |-> new_key,
                                               keys |-> <<old_key>>,
                                               result |-> out.result,
                                               raised |-> FALSE])
    /\ Advance(Len(plan.moves))
    /\ UNCHANGED <<archived_moves, moved_edits, previous_pass, source_kind, heads, statuses, logged_keys>>
    /\ UNCHANGED <<fs, db, restore_log, now, passes, cmd, dry_run, delete_orphans,
                   previous_records, current_files, s3_objects, plan, db_writes,
                   report>>

\* s3.delete_objects(plan.deletes)
DeleteStep ==
    /\ pc = "deletes"
    /\ IF dry_run
       THEN UNCHANGED <<remote, calls>>
       ELSE \E out \in delete_objects(remote, plan.deletes) :
                /\ remote' = out.remote
                /\ calls' = Append(calls, [op |-> "delete_objects", key |-> "",
                                           keys |-> plan.deletes,
                                           result |-> out.confirmed,
                                           raised |-> FALSE])
    /\ idx' = 1 /\ pc' = PhaseAfter(cmd, plan, PhaseIndex(pc))
    /\ UNCHANGED <<archived_moves, moved_edits, previous_pass, source_kind, heads, statuses, logged_keys>>
    /\ UNCHANGED <<fs, db, restore_log, now, passes, cmd, dry_run, delete_orphans,
                   previous_records, current_files, s3_objects, plan, pending_keys,
                   db_writes, report>>

\* for local_path, key in plan.uploads: s3.upload_file(local_path, key)
UploadStep ==
    /\ pc = "uploads"
    /\ LET local_path == plan.uploads[idx][1]
           key        == plan.uploads[idx][2]
       IN  IF dry_run
           THEN UNCHANGED <<remote, calls>>
           ELSE \E out \in upload_file(remote, fs, local_path, key) :
                    /\ remote' = out.remote
                    /\ calls' = Append(calls, [op |-> "upload", key |-> key,
                                               keys |-> <<>>,
                                               result |-> out.result,
                                               raised |-> FALSE])
    /\ Advance(Len(plan.uploads))
    /\ UNCHANGED <<archived_moves, moved_edits, previous_pass, source_kind, heads, statuses, logged_keys>>
    /\ UNCHANGED <<fs, db, restore_log, now, passes, cmd, dry_run, delete_orphans,
                   previous_records, current_files, s3_objects, plan, pending_keys,
                   db_writes, report>>

\* Mutant of UpdateDb: the index is updated in a dry run as well.
UpdateDb_IgnoresDryRun ==
    /\ pc = "update_db"
    /\ db' = UpdateIndex(db, current_files)
    /\ db_writes' = db_writes \o <<"bulk_upsert", "delete_missing_paths">>
    /\ pc' = "finish"
    /\ UNCHANGED <<archived_moves, moved_edits, previous_pass, source_kind, heads, statuses, logged_keys>>
    /\ UNCHANGED <<fs, remote, restore_log, now, passes, cmd, dry_run,
                   delete_orphans, previous_records, current_files, s3_objects,
                   plan, idx, pending_keys, calls, report>>

\* if not dry_run: db.bulk_upsert(records); db.delete_missing_paths(current_paths)
UpdateDb ==
    /\ pc = "update_db"
    /\ IF dry_run
       THEN UNCHANGED <<db, db_writes>>
       ELSE /\ db' = UpdateIndex(db, current_files)
            /\ db_writes' = db_writes \o <<"bulk_upsert", "delete_missing_paths">>
    /\ pc' = "finish"
    /\ UNCHANGED <<archived_moves, moved_edits, previous_pass, source_kind, heads, statuses, logged_keys>>
    /\ UNCHANGED <<fs, remote, restore_log, now, passes, cmd, dry_run,
                   delete_orphans, previous_records, current_files, s3_objects,
                   plan, idx, pending_keys, calls, report>>

\* if not dry_run and archive_handler.has_pending(): archive_handler.save_log();
\* then "complete" is logged and the finally block closes the logger.
Finish ==
    /\ pc = "finish"
    /\ LET saved == IF dry_run THEN restore_log ELSE save_log(restore_log, pending_keys)
           tree  == IF saved # restore_log THEN RestoreLogFile(fs, saved, now) ELSE fs
       IN  /\ restore_log' = saved
           /\ fs' = LoggerClose(tree, cmd, now)
    /\ logged_keys' = IF dry_run THEN logged_keys ELSE logged_keys \cup pending_keys
    /\ UNCHANGED <<archived_moves, moved_edits, previous_pass, source_kind, heads, statuses>>
    /\ report' = "complete"
    /\ pc' = "done"
    /\ UNCHANGED <<db, remote, now, passes, cmd, dry_run, delete_orphans,
                   previous_records, current_files, s3_objects, plan, idx,
                   pending_keys, calls, db_writes>>

\* The remote call the pass is about to make, as a record of `calls`.
NextCall ==
    CASE pc = "moves"   -> [op |-> "move", key |-> plan.moves[idx][2],
                            keys |-> <<plan.moves[idx][1]>>]
      [] pc = "deletes" -> [op |-> "delete_objects", key |-> "", keys |-> plan.deletes]
      [] pc = "uploads" -> [op |-> "upload", key |-> plan.uploads[idx][2], keys |-> <<>>]

\* What the bucket can hold after that call, whatever the call answers.
NextCallRemotes ==
    CASE pc = "moves" ->
             {o.remote : o \in move_object(remote, plan.moves[idx][1], plan.moves[idx][2])}
      [] pc = "deletes" ->
             {o.remote : o \in delete_objects(remote, plan.deletes)}
      [] pc = "uploads" ->
             {o.remote : o \in upload_file(remote, fs, plan.uploads[idx][1],
                                           plan.uploads[idx][2])}

\* Mutant of Fatal: the index is updated on the way out.
Fatal_UpdatesIndex ==
    /\ pc \in {"moves", "deletes", "uploads"} /\ ~dry_run
    /\ remote' \in NextCallRemotes
    /\ calls' = Append(calls, [op |-> NextCall.op, key |-> NextCall.key,
                               keys |-> NextCall.keys, result |-> "raised",
                               raised |-> TRUE])
    /\ fs' = LoggerClose(fs, cmd, now)
    /\ report' = "fatal"
    /\ pc' = "done"
    /\ db' = UpdateIndex(db, current_files)
    /\ db_writes' = db_writes \o <<"bulk_upsert", "delete_missing_paths">>
    /\ UNCHANGED <<archived_moves, moved_edits, previous_pass, source_kind, heads, statuses, logged_keys>>
    /\ UNCHANGED <<restore_log, now, passes, cmd, dry_run,
                   delete_orphans, previous_records, current_files, s3_objects,
                   plan, idx, pending_keys>>

\* A remote call raises something that is no ClientError (client.upload_file
\* wraps a ClientError of the transfer in S3UploadFailedError, a lost connection
\* is a BotoCoreError, a file gone since the scan an OSError): the methods of
\* S3Client catch ClientError only and cmd_sync has no except clause, so nothing
\* after the call runs but the finally block.
Fatal ==
    /\ pc \in {"moves", "deletes", "uploads"} /\ ~dry_run
    /\ remote' \in NextCallRemotes
    /\ calls' = Append(calls, [op |-> NextCall.op, key |-> NextCall.key,
                               keys |-> NextCall.keys, result |-> "raised",
                               raised |-> TRUE])
    /\ fs' = LoggerClose(fs, cmd, now)
    /\ report' = "fatal"
    /\ pc' = "done"
    /\ UNCHANGED <<archived_moves, moved_edits, previous_pass, source_kind, heads, statuses, logged_keys>>
    /\ UNCHANGED <<db, restore_log, now, passes, cmd, dry_run,
                   delete_orphans, previous_records, current_files, s3_objects,
                   plan, idx, pending_keys, db_writes>>

\* The call did all it was asked to do.
CallSucceeded(call) ==
    /\ ~call.raised
    /\ \/ call.op = "upload" /\ call.result = TRUE
       \/ call.op = "move" /\ call.result = "success"
       \/ call.op = "delete_objects" /\ call.result = Range(call.keys)

\* The files of the scan that stand at their recorded path with another size or
\* a later modification time.
ModifiedPaths(current_files_, previous_records_) ==
    {f.path : f \in {g \in Range(current_files_) :
                        /\ g.inode \in DOMAIN previous_records_
                        /\ previous_records_[g.inode].path = g.path
                        /\ FileModified(g, previous_records_[g.inode])}}

\* The process exits: what it held in memory is gone.
Exit ==
    /\ pc = "done"
    /\ pc' = "idle" /\ cmd' = "sync" /\ dry_run' = FALSE /\ delete_orphans' = FALSE
    /\ previous_records' = <<>> /\ current_files' = <<>> /\ s3_objects' = <<>>
    /\ plan' = SyncPlan /\ idx' = 1 /\ pending_keys' = {}
    /\ calls' = <<>> /\ db_writes' = <<>> /\ report' = "none"
    /\ archived_moves' =
           IF cmd = "sync" /\ ~dry_run /\ report = "complete"
           THEN {<<calls[n].keys[1], calls[n].key>> :
                    n \in {m \in DOMAIN calls : /\ calls[m].op = "move"
                                                /\ ~calls[m].raised
                                                /\ calls[m].result = "archived"}}
           ELSE {}
    /\ moved_edits' =
           IF cmd = "sync" /\ ~dry_run /\ report = "complete"
           THEN {calls[n].key :
                    n \in {m \in DOMAIN calls :
                              /\ calls[m].op = "move" /\ ~calls[m].raised
                              /\ calls[m].result = "success"
                              /\ \E f \in Range(current_files) :
                                     /\ f.path = calls[m].key
                                     /\ f.inode \in DOMAIN previous_records
                                     /\ previous_records[f.inode].path = calls[m].keys[1]
                                     /\ FileModified(f, previous_records[f.inode])}}
           ELSE {}
    /\ previous_pass' =
           IF /\ cmd = "sync" /\ ~dry_run /\ report \in {"in_sync", "complete"}
              /\ \A n \in DOMAIN calls : CallSucceeded(calls[n])
           THEN PassRecord("sync", delete_orphans, {})
           ELSE IF cmd = "moves" /\ ~dry_run /\ report \in {"no_renames", "complete"}
                THEN PassRecord("moves", FALSE,
                                ModifiedPaths(current_files, previous_records))
                ELSE NoPass
    /\ UNCHANGED restore_vars
    /\ UNCHANGED <<fs, db, remote, restore_log, now, passes, source_kind>>

Next ==
    \/ LocalChange
    \/ StartSync
    \/ StartMoves
    \/ MoveStep
    \/ DeleteStep
    \/ UploadStep
    \/ UpdateDb
    \/ Finish
    \/ Fatal
    \/ Exit

Spec == Init /\ [][Next]_vars

(***************************************************************************)
(* The passes that follow a first sync.  The first run, at second 1 and    *)
(* without flags, found the bucket empty and uploaded the tree and its own *)
(* log file; the process has exited.                                       *)
(***************************************************************************)
FirstTrees == {{File(1, "a.txt", 1, 0)}}

InitRetry ==
    /\ \E tree \in FirstTrees :
           LET started == LoggerStart(tree, "sync", 1, 0)
               scan    == scan_to_dict(started)
           IN  /\ fs = LoggerClose(started, "sync", 1)
               /\ db = UpdateIndex({}, scan)
               /\ remote = [k \in {f.path : f \in started} |->
                                Content(FileAt(started, k))]
    /\ restore_log = [exists |-> FALSE, text |-> ""]
    /\ now = 1 /\ passes = 0
    /\ pc = "idle" /\ cmd = "sync" /\ dry_run = FALSE /\ delete_orphans = FALSE
    /\ previous_records = <<>> /\ current_files = <<>> /\ s3_objects = <<>>
    /\ plan = SyncPlan /\ idx = 1 /\ pending_keys = {}
    /\ calls = <<>> /\ db_writes = <<>> /\ report = "none"
    /\ archived_moves = {} /\ moved_edits = {} /\ previous_pass = PassRecord("sync", FALSE, {}) /\ source_kind = "dir" /\ heads = <<>> /\ statuses = <<>> /\ logged_keys = {}

SpecRetry == InitRetry /\ [][Next]_vars

(***************************************************************************)
(* The restore log across runs and cmd_restore_status (main.py), with      *)
(* S3Client.get_restore_status.  Keys are relative paths of files of the   *)
(* source directory: a name may begin with '#' or end with a space.        *)
(***************************************************************************)
MaxSaves == 2

RestoreKeys == {"a.txt", "b.txt", "#b.txt", "a.txt "}

\* The x-amz-restore header of a restore in progress, of a completed restore,
\* and one that carries no ongoing-request indicator.
RestoreOngoing == "ongoing-request=\"true\""
RestoreDone == "ongoing-request=\"false\", expiry-date=\"Fri, 21 Dec 2012 00:00:00 GMT\""
RestoreMalformed == "expiry-date=\"Fri, 21 Dec 2012 00:00:00 GMT\""

\* What client.head_object does: it raises a ClientError, or returns a response
\* with or without StorageClass and Restore.
HeadResponses ==
    {[ok |-> FALSE, response |-> <<>>],
     [ok |-> TRUE, response |-> <<>>],
     [ok |-> TRUE, response |-> [StorageClass |-> "DEEP_ARCHIVE"]],
     [ok |-> TRUE, response |-> [StorageClass |-> "DEEP_ARCHIVE", Restore |-> RestoreOngoing]],
     [ok |-> TRUE, response |-> [StorageClass |-> "DEEP_ARCHIVE", Restore |-> RestoreDone]],
     [ok |-> TRUE, response |-> [StorageClass |-> "DEEP_ARCHIVE", Restore |-> RestoreMalformed]]}

\* dict.get(key, default)
Get(dict, key, default) == IF key \in DOMAIN dict THEN dict[key] ELSE default

\* sub in text
Contains(text, sub) ==
    \E n \in 1..(Len(text) - Len(sub) + 1) : SubSeq(text, n, n + Len(sub) - 1) = sub

\* Mutant of get_restore_status: a header without an indicator counts as completed.
get_restore_status_NoUnknown(head) ==
    IF ~head.ok
    THEN [storage_class |-> "ERROR", restore_status |-> "error"]
    ELSE LET storage_class  == Get(head.response, "StorageClass", "STANDARD")
             restore_header == Get(head.response, "Restore", "")
         IN  [storage_class  |-> storage_class,
              restore_status |->
                  IF restore_header = "" THEN "not_started"
                  ELSE IF Contains(restore_header, "ongoing-request=\"true\"")
                       THEN "in_progress"
                       ELSE "completed"]

get_restore_status(head) ==
    IF ~head.ok
    THEN [storage_class |-> "ERROR", restore_status |-> "error"]
    ELSE LET storage_class  == Get(head.response, "StorageClass", "STANDARD")
             restore_header == Get(head.response, "Restore", "")
         IN  [storage_class  |-> storage_class,
              restore_status |->
                  IF restore_header = "" THEN "not_started"
                  ELSE IF Contains(restore_header, "ongoing-request=\"true\"")
                       THEN "in_progress"
                       ELSE IF Contains(restore_header, "ongoing-request=\"false\"")
                            THEN "completed"
                            ELSE "unknown"]

\* status_counts[restore_status] after the loop over pending_keys.
status_counts(statuses_, pending, restore_status) ==
    Cardinality({n \in DOMAIN pending :
                    statuses_[pending[n]].restore_status = restore_status})

\* Mutant of AllCompleted: one completed key is enough.
AllCompleted_AnyCompleted(statuses_, pending) ==
    status_counts(statuses_, pending, "completed") >= 1

\* if status_counts.get('completed', 0) == len(pending_keys)
AllCompleted(statuses_, pending) ==
    status_counts(statuses_, pending, "completed") = Len(pending)

InitRestore ==
    /\ restore_log = [exists |-> FALSE, text |-> ""]
    /\ logged_keys = {} /\ heads = <<>> /\ statuses = <<>>
    /\ pc = "idle" /\ report = "none" /\ passes = 0
    /\ fs = {} /\ db = {} /\ remote = <<>> /\ now = 0
    /\ cmd = "sync" /\ dry_run = FALSE /\ delete_orphans = FALSE
    /\ previous_records = <<>> /\ current_files = <<>> /\ s3_objects = <<>>
    /\ plan = SyncPlan /\ idx = 1 /\ pending_keys = {}
    /\ calls = <<>> /\ db_writes = <<>> /\ archived_moves = {} /\ moved_edits = {} /\ previous_pass = NoPass /\ source_kind = "dir"

\* A sync or moves pass ends with the keys of its archived moves pending, none
\* when no move was archived: archive_handler.save_log().
SaveLog ==
    /\ pc = "idle" /\ passes < MaxSaves
    /\ \E pending \in SUBSET RestoreKeys :
           /\ pending_keys' = pending
           /\ restore_log' = save_log(restore_log, pending)
           /\ logged_keys' = logged_keys \cup pending
    /\ passes' = passes + 1
    /\ UNCHANGED <<fs, db, remote, now, pc, cmd, dry_run, delete_orphans,
                   previous_records, current_files, s3_objects, plan, idx,
                   calls, db_writes, report, archived_moves, moved_edits, previous_pass, source_kind,
                   heads, statuses>>

\* cmd_restore_status
RestoreStatus ==
    /\ pc = "idle"
    /\ LET pending == load_pending_keys(restore_log)
       IN  IF pending = <<>>
           THEN /\ report' = "no_archived"
                /\ UNCHANGED <<restore_log, logged_keys, heads, statuses>>
           ELSE \E answers \in [Range(pending) -> HeadResponses] :
                    LET status == [k \in Range(pending) |-> get_restore_status(answers[k])]
                    IN  /\ heads' = answers
                        /\ statuses' = status
                        /\ IF AllCompleted(status, pending)
                           THEN /\ restore_log' = clear_log(restore_log)
                                /\ logged_keys' = {}
                                /\ report' = "all_restored"
                           ELSE /\ UNCHANGED <<restore_log, logged_keys>>
                                /\ report' = "pending"
    /\ pc' = "status_done"
    /\ pending_keys' = {}
    /\ UNCHANGED <<fs, db, remote, now, passes, cmd, dry_run, delete_orphans,
                   previous_records, current_files, s3_objects, plan, idx,
                   calls, db_writes, archived_moves, moved_edits, previous_pass, source_kind>>

\* The process exits.
StatusExit ==
    /\ pc = "status_done"
    /\ pc' = "idle" /\ report' = "none" /\ heads' = <<>> /\ statuses' = <<>>
    /\ UNCHANGED <<fs, db, remote, restore_log, now, passes, cmd, dry_run,
                   delete_orphans, previous_records, current_files, s3_objects,
                   plan, idx, pending_keys, calls, db_writes, archived_moves, moved_edits, previous_pass, source_kind,
                   logged_keys>>

\* What client.restore_object does: the request is accepted, S3 answers with a
\* ClientError (code RestoreAlreadyInProgress, or another code), or the call
\* raises an exception that is not a ClientError.
RestoreResponses == {"accepted", "RestoreAlreadyInProgress", "ClientError", "raised"}

\* S3Client.restore_object: True when the restore was initiated or is already
\* in progress, False on another ClientError; nothing else is caught.
restore_object(response) ==
    CASE response = "accepted" -> [result |-> TRUE, raised |-> FALSE]
      [] response = "RestoreAlreadyInProgress" -> [result |-> TRUE, raised |-> FALSE]
      [] response = "ClientError" -> [result |-> FALSE, raised |-> FALSE]
      [] OTHER -> [result |-> FALSE, raised |-> TRUE]

\* list(set(keys)): the order of a Python set is not specified.
Orders(keys) ==
    {order \in [DOMAIN keys -> Range(keys)] : Range(order) = Range(keys)}

\* for key in pending_keys: if s3.restore_object(key, ...): success_count += 1
\* The requests made: the loop ends at the first call that raises.
RECURSIVE RestoreLoop(_, _, _)
RestoreLoop(pending, responses, n) ==
    IF n > Len(pending)
    THEN <<>>
    ELSE LET out  == restore_object(responses[n])
             call == [op |-> "restore", key |-> pending[n], keys |-> <<>>,
                      result |-> out.result, raised |-> out.raised]
         IN  IF out.raised
             THEN <<call>>
             ELSE <<call>> \o RestoreLoop(pending, responses, n + 1)

\* cmd_restore
Restore ==
    /\ pc = "idle"
    /\ LET loaded == load_pending_keys(restore_log)
       IN  IF loaded = <<>>
           THEN /\ calls' = <<>>
                /\ report' = "no_archived"
           ELSE \E pending \in Orders(loaded) :
                    \E responses \in [DOMAIN pending -> RestoreResponses] :
                        LET made == RestoreLoop(pending, responses, 1)
                        IN  /\ calls' = made
                            /\ report' = IF made[Len(made)].raised
                                         THEN "traceback"
                                         ELSE "initiated"
    /\ pc' = "restore_done"
    /\ pending_keys' = {}
    /\ UNCHANGED <<fs, db, remote, restore_log, now, passes, cmd, dry_run,
                   delete_orphans, previous_records, current_files, s3_objects,
                   plan, idx, db_writes, archived_moves, moved_edits,
                   previous_pass, source_kind, heads, statuses, logged_keys>>

\* The process exits.
RestoreExit ==
    /\ pc = "restore_done"
    /\ pc' = "idle" /\ report' = "none" /\ calls' = <<>>
    /\ UNCHANGED <<fs, db, remote, restore_log, now, passes, cmd, dry_run,
                   delete_orphans, previous_records, current_files, s3_objects,
                   plan, idx, pending_keys, db_writes, archived_moves, moved_edits,
                   previous_pass, source_kind, heads, statuses, logged_keys>>

NextRestore ==
    \/ SaveLog
    \/ RestoreStatus
    \/ StatusExit
    \/ Restore
    \/ RestoreExit

SpecRestore == InitRestore /\ [][NextRestore]_vars

(***************************************************************************)
(* Database.delete_missing_paths on its own: every table of at most one    *)
(* row per path, every scan, then one call as cmd_sync makes it.           *)
(***************************************************************************)
\* The table `files`: path is the primary key, so at most one row per path.
IndexTables ==
    {{FileRecord(p, row[p][1], row[p][2], row[p][3], TRUE) :
         p \in {q \in PlanPaths : row[q] # <<>>}} :
        row \in [PlanPaths -> {<<>>} \cup (UserInodes \X Sizes \X Mtimes)]}

IndexScans ==
    {s \in PlanScans : \A n \in DOMAIN s : s[n].size = 1 /\ s[n].mtime = 0}

InitIndex ==
    /\ pc = "index_input"
    /\ db \in IndexTables
    /\ current_files \in IndexScans
    /\ db_writes = <<>>
    /\ fs = {} /\ remote = <<>>
    /\ restore_log = [exists |-> FALSE, text |-> ""]
    /\ now = 0 /\ passes = 0 /\ cmd = "sync" /\ dry_run = FALSE
    /\ delete_orphans = FALSE
    /\ previous_records = <<>> /\ s3_objects = <<>> /\ plan = SyncPlan
    /\ idx = 1 /\ pending_keys = {} /\ calls = <<>> /\ report = "none"
    /\ archived_moves = {} /\ moved_edits = {} /\ previous_pass = NoPass /\ source_kind = "dir" /\ heads = <<>> /\ statuses = <<>> /\ logged_keys = {}

\* current_paths = {f.path for f in current_files.values()}
\* db.delete_missing_paths(current_paths)
DeleteMissingPaths ==
    /\ pc = "index_input"
    /\ LET current_paths == {f.path : f \in Range(current_files)}
           out           == delete_missing_paths(db, current_paths)
       IN  /\ db' = out.db
           /\ db_writes' = <<out.missing>>
    /\ pc' = "pruned"
    /\ UNCHANGED <<fs, remote, restore_log, now, passes, cmd, dry_run,
                   delete_orphans, previous_records, current_files, s3_objects,
                   plan, idx, pending_keys, calls, report, archived_moves, moved_edits, previous_pass, source_kind,
                   heads, statuses, logged_keys>>

NextIndex == DeleteMissingPaths

SpecIndex == InitIndex /\ [][NextIndex]_vars

(***************************************************************************)
(* Properties of the passes.                                               *)
(***************************************************************************)
CallsOf(op) == {n \in DOMAIN calls : calls[n].op = op}

\* C7: in a pass that runs without the delete flag (every moves pass does), the
\* plan has no delete and no batch delete is sent, however many passes ran before.
C7_OrphanDeletionGated ==
    ~delete_orphans =>
        /\ plan.deletes = <<>>
        /\ CallsOf("delete_objects") = {}

\* A second pass without the flag has completed and a remote key that no local
\* file accounts for is still there.
C7_Witness ==
    /\ pc = "done" /\ report = "complete" /\ ~dry_run /\ ~delete_orphans
    /\ passes = 2
    /\ \E k \in DOMAIN s3_objects :
           /\ k \notin CurrentPaths \cup MoveSources(plan)
           /\ k \in DOMAIN remote

OpRank(op) ==
    CASE op = "move" -> 1
      [] op = "delete_objects" -> 2
      [] op = "upload" -> 3

\* C9: the remote calls of a pass come in the order moves, batch delete,
\* uploads; the one batch delete carries every planned delete and is sent only
\* after every planned move was tried, and an upload is tried only after that
\* and after the batch delete of a plan with deletes.
C9_ExecutionOrder ==
    /\ \A m, n \in DOMAIN calls : m < n => OpRank(calls[m].op) <= OpRank(calls[n].op)
    /\ Cardinality(CallsOf("delete_objects")) <= 1
    /\ \A n \in CallsOf("delete_objects") : calls[n].keys = plan.deletes
    /\ CallsOf("delete_objects") # {} =>
           Cardinality(CallsOf("move")) = Len(plan.moves)
    /\ CallsOf("upload") # {} =>
           /\ Cardinality(CallsOf("move")) = Len(plan.moves)
           /\ plan.deletes # <<>> => CallsOf("delete_objects") # {}

\* A completed pass that moved, deleted and uploaded.
C9_Witness ==
    /\ pc = "done" /\ report = "complete" /\ cmd = "sync"
    /\ CallsOf("move") # {}
    /\ CallsOf("delete_objects") # {}
    /\ CallsOf("upload") # {}

IndexRows(rows) == {<<r.path, r.inode, r.size, r.mtime>> : r \in rows}

\* C10: when a sync pass that is no dry run ends without a fatal error, the
\* index has exactly one row per scanned path, with the scanned inode, size and
\* modification time, also when the plan was empty.
C10_IndexFollowsSnapshot ==
    (pc = "done" /\ cmd = "sync" /\ ~dry_run /\ report \in {"in_sync", "complete"}) =>
        IndexRows(db) = IndexRows(Range(current_files))

\* The same for the passes whose plan was not empty.
C10_IndexFollowsSnapshotNonEmptyPlan ==
    (pc = "done" /\ cmd = "sync" /\ ~dry_run /\ report = "complete") =>
        IndexRows(db) = IndexRows(Range(current_files))

\* A call that came back with a failure: an upload that returned False, a move
\* that returned 'error' or 'archived'.
CallFailed(call) ==
    /\ ~call.raised
    /\ \/ call.op = "upload" /\ call.result = FALSE
       \/ call.op = "move" /\ call.result \in {"error", "archived"}

\* A sync pass that was no dry run has run to its end.
SyncPassComplete ==
    pc = "done" /\ cmd = "sync" /\ ~dry_run /\ report = "complete"

\* C11: after a sync pass in which the upload of a key or the move to a key
\* failed, the index has no row that records the file scanned at that key, with
\* its scanned inode, size and modification time, as synced.
C11_FailedCallExcluded ==
    SyncPassComplete =>
        \A n \in DOMAIN calls :
            CallFailed(calls[n]) =>
                \A f \in Range(current_files) :
                    f.path = calls[n].key =>
                        FileRecord(f.path, f.inode, f.size, f.mtime, TRUE) \notin db

\* Keys a batch delete of the pass was asked to delete and did not confirm.
UnconfirmedDeletes ==
    UNION {Range(calls[n].keys) \ calls[n].result :
              n \in {m \in CallsOf("delete_objects") : ~calls[m].raised}}

\* C12: a key that the batch delete of a sync pass did not confirm keeps the
\* index row it had when the pass began.
C12_PartialBatchDelete ==
    SyncPassComplete =>
        \A k \in UnconfirmedDeletes :
            (\E r \in Range(previous_records) : r.path = k) =>
                \E r \in db : r.path = k

\* Source keys of the moves of the pass that reported 'archived'.
ArchivedSources ==
    {calls[n].keys[1] :
        n \in {m \in CallsOf("move") : ~calls[m].raised /\ calls[m].result = "archived"}}

\* Source keys of the moves of the pass that succeeded or failed otherwise.
OtherSources ==
    {calls[n].keys[1] :
        n \in {m \in CallsOf("move") : calls[m].raised \/ calls[m].result # "archived"}}

\* Keys in the text a step appends to the restore log.
AddedKeys ==
    Range(ParseKeys(SubSeq(restore_log'.text, Len(restore_log.text) + 1,
                           Len(restore_log'.text))))

\* C13: the step that ends a sync pass appends to the restore log the source
\* key of every move that reported 'archived', no destination key of a planned
\* move and no source key of a move that succeeded or failed otherwise.
C13_ArchiveRouting ==
    [][(pc = "finish" /\ cmd = "sync" /\ ~dry_run) =>
           /\ ArchivedSources \subseteq AddedKeys
           /\ ArchivedSources \subseteq Range(load_pending_keys(restore_log'))
           /\ AddedKeys \cap (MoveDestinations(plan) \cup OtherSources) = {}]_vars

\* The same for the plans that name no key twice: the keys appended are exactly
\* the sources of the archived moves.
C13_ArchiveRoutingSingleUse ==
    [][(pc = "finish" /\ cmd = "sync" /\ ~dry_run
            /\ \A k \in AllKeys : KeyUses(plan, k) <= 1) =>
           /\ AddedKeys = ArchivedSources
           /\ ArchivedSources \subseteq Range(load_pending_keys(restore_log'))
           /\ AddedKeys \cap (MoveDestinations(plan) \cup OtherSources) = {}]_vars

\* The states a first sync leaves behind are states of Spec.
FirstSyncDone ==
    /\ pc = "idle" /\ now = 1 /\ passes = 1 /\ ~restore_log.exists
    /\ archived_moves = {} /\ moved_edits = {} /\ previous_pass = PassRecord("sync", FALSE, {}) /\ source_kind = "dir"
    /\ \E tree \in FirstTrees :
           LET started == LoggerStart(tree, "sync", 1, 0)
           IN  /\ fs = LoggerClose(started, "sync", 1)
               /\ db = UpdateIndex({}, scan_to_dict(started))
               /\ remote = [k \in {f.path : f \in started} |->
                                Content(FileAt(started, k))]

\* C14: a sync pass that follows, with no local change in between, a sync pass
\* in which the move a -> b reported 'archived' plans the move a -> b again, and
\* has called it when it completes.
C14_RerunRetriesMove ==
    /\ (cmd = "sync" /\ ~dry_run /\ pc \in {"moves", "deletes", "uploads",
                                              "update_db", "finish", "done"}) =>
           \A m \in archived_moves : m \in Range(plan.moves)
    /\ SyncPassComplete =>
           \A m \in archived_moves :
               \E n \in CallsOf("move") : calls[n].keys = <<m[1]>> /\ calls[n].key = m[2]

(***************************************************************************)
(* Properties of the restore log and of restore-status.                    *)
(***************************************************************************)
\* C15: whatever was appended to the restore log since it was last removed,
\* load_pending_keys returns no key twice, returns exactly the keys appended,
\* and returns no blank line and no comment line.
C15_RestoreLogIdempotence ==
    LET loaded == load_pending_keys(restore_log)
    IN  /\ \A m, n \in DOMAIN loaded : m # n => loaded[m] # loaded[n]
        /\ Range(loaded) = logged_keys
        /\ \A n \in DOMAIN loaded : loaded[n] # "" /\ loaded[n] # "# Logged at T"

\* A key that line.strip() and the comment test leave as it was written.
PlainKey(key) == key # "" /\ Strip(key) = key /\ ~StartsWith(key, "#")

\* The same when every key appended is plain.
C15_RestoreLogIdempotencePlainKeys ==
    (\A k \in logged_keys : PlainKey(k)) =>
        LET loaded == load_pending_keys(restore_log)
        IN  /\ \A m, n \in DOMAIN loaded : m # n => loaded[m] # loaded[n]
            /\ Range(loaded) = logged_keys
            /\ \A n \in DOMAIN loaded : loaded[n] # "" /\ loaded[n] # "# Logged at T"

\* C16: a restore-status invocation removes the restore log exactly when keys
\* were loaded from it and every one of them reported completed; otherwise the
\* log is as it was.
C16_LogClearing ==
    [][(pc = "idle" /\ pc' = "status_done") =>
           LET keys    == Range(load_pending_keys(restore_log))
               cleared == restore_log.exists /\ ~restore_log'.exists
           IN  /\ cleared <=>
                      /\ keys # {}
                      /\ \A k \in keys : statuses'[k].restore_status = "completed"
               /\ ~cleared => restore_log' = restore_log]_vars

\* A restore-status over two keys that both reported completed removed the log.
C16_Witness ==
    /\ pc = "status_done" /\ report = "all_restored"
    /\ ~restore_log.exists
    /\ Cardinality(DOMAIN statuses) = 2

\* The status the claim gives to an answer of head_object.
StatedStatus(head) ==
    IF ~head.ok THEN "error"
    ELSE IF "Restore" \notin DOMAIN head.response THEN "not_started"
    ELSE CASE head.response.Restore = RestoreOngoing -> "in_progress"
           [] head.response.Restore = RestoreDone -> "completed"
           [] OTHER -> "unknown"

PathsOf(rows) == {r.path : r \in rows}

PlannedCalls ==
    Len(plan.moves) + (IF plan.deletes # <<>> THEN 1 ELSE 0) + Len(plan.uploads)

\* C19: in a sync pass that is no dry run the index is written only when every
\* planned call has been made, and no step that starts the pass, makes a remote
\* call or ends the pass on an exception changes the index.
C19_IndexUpdatedLast ==
    /\ []((cmd = "sync" /\ ~dry_run /\ db_writes # <<>>) => Len(calls) = PlannedCalls)
    /\ [][(cmd' = "sync" /\ ~dry_run'
             /\ (pc' \in {"moves", "deletes", "uploads", "update_db"} \/ report' = "fatal"))
            => (db' = db /\ db_writes' = <<>>)]_vars

\* A pass ended on an exception after a remote call it had made, and the index
\* holds rows of an earlier pass.
C19_Witness ==
    /\ pc = "done" /\ cmd = "sync" /\ ~dry_run /\ report = "fatal"
    /\ Len(calls) >= 2
    /\ db # {} /\ db_writes = <<>>

\* C20: when a sync pass that is no dry run has ended, every planned move and
\* every planned upload was called exactly once, and a plan with deletes had
\* exactly one batch delete, with all its keys.
C20_NoShortCircuit ==
    (pc = "done" /\ cmd = "sync" /\ ~dry_run /\ report \in {"complete", "fatal"}) =>
        /\ \A n \in DOMAIN plan.moves :
               Cardinality({m \in CallsOf("move") :
                               /\ calls[m].keys = <<plan.moves[n][1]>>
                               /\ calls[m].key = plan.moves[n][2]}) = 1
        /\ \A n \in DOMAIN plan.uploads :
               Cardinality({m \in CallsOf("upload") :
                               calls[m].key = plan.uploads[n][2]}) = 1
        /\ plan.deletes # <<>> =>
               /\ Cardinality(CallsOf("delete_objects")) = 1
               /\ \A m \in CallsOf("delete_objects") : calls[m].keys = plan.deletes
        /\ Len(calls) = PlannedCalls

\* The same for the passes in which no call raised an exception that the
\* client does not catch.
C20_NoShortCircuitClientErrors ==
    (pc = "done" /\ cmd = "sync" /\ ~dry_run /\ report = "complete") =>
        /\ \A n \in DOMAIN plan.moves :
               Cardinality({m \in CallsOf("move") :
                               /\ calls[m].keys = <<plan.moves[n][1]>>
                               /\ calls[m].key = plan.moves[n][2]}) = 1
        /\ \A n \in DOMAIN plan.uploads :
               Cardinality({m \in CallsOf("upload") :
                               calls[m].key = plan.uploads[n][2]}) = 1
        /\ plan.deletes # <<>> =>
               /\ Cardinality(CallsOf("delete_objects")) = 1
               /\ \A m \in CallsOf("delete_objects") : calls[m].keys = plan.deletes
        /\ Len(calls) = PlannedCalls

(***************************************************************************)
(* The plan of a pass executed with every call succeeding, in the order of *)
(* cmd_sync and in the other orders of its three blocks.                   *)
(***************************************************************************)
\* s3.move_object when copy_object and delete_object succeed; copy_object of a
\* key that is not there is a ClientError and changes nothing.
MoveSucceeding(bucket, old_key, new_key) ==
    IF old_key \in DOMAIN bucket
    THEN Remove(Put(bucket, new_key, bucket[old_key]), {old_key})
    ELSE bucket

RECURSIVE RunMoves(_, _, _)
RunMoves(bucket, moves, n) ==
    IF n > Len(moves) THEN bucket
    ELSE RunMoves(MoveSucceeding(bucket, moves[n][1], moves[n][2]), moves, n + 1)

\* s3.upload_file when the transfer succeeds: the object is what the scanned
\* file holds.
RECURSIVE RunUploads(_, _, _, _)
RunUploads(bucket, uploads, scan, n) ==
    IF n > Len(uploads) THEN bucket
    ELSE LET f == CHOOSE g \in Range(scan) : g.abs_path = uploads[n][1]
         IN  RunUploads(Put(bucket, uploads[n][2], Content(f)), uploads, scan, n + 1)

\* One block of cmd_sync with every call succeeding.
RunPhase(bucket, plan_, scan, phase) ==
    CASE phase = "moves"   -> RunMoves(bucket, plan_.moves, 1)
      [] phase = "deletes" -> Remove(bucket, Range(plan_.deletes))
      [] phase = "uploads" -> RunUploads(bucket, plan_.uploads, scan, 1)

\* The three blocks in the given order.
RunPlan(bucket, plan_, scan, order) ==
    RunPhase(RunPhase(RunPhase(bucket, plan_, scan, order[1]),
                      plan_, scan, order[2]),
             plan_, scan, order[3])

CategoryOrders ==
    {o \in [1..3 -> Range(PhaseOrder)] : \A m, n \in 1..3 : m # n => o[m] # o[n]}

\* A pass is about to make the first call of its plan.
ExecutionStarts ==
    pc \in {"moves", "deletes", "uploads"} /\ cmd = "sync" /\ ~dry_run /\ calls = <<>>

\* C21: for the plan of every sync pass, executing the three blocks in any
\* order, every call succeeding, leaves the bucket as the order moves, deletes,
\* uploads leaves it.
C21_CategoryOrderIrrelevant ==
    ExecutionStarts =>
        \A order \in CategoryOrders :
            RunPlan(remote, plan, current_files, order)
                = RunPlan(remote, plan, current_files, PhaseOrder)

\* The same for the plans that name no key twice.
C21_CategoryOrderIrrelevantSingleUse ==
    (ExecutionStarts /\ \A k \in AllKeys : KeyUses(plan, k) <= 1) =>
        \A order \in CategoryOrders :
            RunPlan(remote, plan, current_files, order)
                = RunPlan(remote, plan, current_files, PhaseOrder)

(***************************************************************************)
(* The moves of a plan run by concurrent workers: move_object is a         *)
(* copy_object followed by a delete_object of the source, and the steps of *)
(* different moves interleave.                                             *)
(***************************************************************************)
MoveSteps(moves) == (DOMAIN moves) \X {"copy", "delete"}

StepAt(schedule, step) == CHOOSE i \in DOMAIN schedule : schedule[i] = step

\* Every step once, the copy of a move before its delete.
Schedules(moves) ==
    {schedule \in [1..(2 * Len(moves)) -> MoveSteps(moves)] :
        /\ \A i, j \in DOMAIN schedule : i # j => schedule[i] # schedule[j]
        /\ \A n \in DOMAIN moves :
               StepAt(schedule, <<n, "copy">>) < StepAt(schedule, <<n, "delete">>)}

\* The schedule of the loop of cmd_sync: one move after the other.
InPlanOrder(moves) ==
    [i \in 1..(2 * Len(moves)) |->
        <<(i + 1) \div 2, IF i % 2 = 1 THEN "copy" ELSE "delete">>]

\* One step with S3 answering normally: copy_object of a key that is not there
\* raises a ClientError, which ends that move with 'error' before its delete.
RunStep(state, moves, step) ==
    LET n       == step[1]
        old_key == moves[n][1]
        new_key == moves[n][2]
    IN  IF step[2] = "copy"
        THEN IF old_key \in DOMAIN state.bucket
             THEN [state EXCEPT !.bucket = Put(@, new_key, state.bucket[old_key])]
             ELSE [state EXCEPT !.result[n] = "error"]
        ELSE IF state.result[n] = "error"
             THEN state
             ELSE [state EXCEPT !.bucket = Remove(@, {old_key})]

RECURSIVE RunSchedule(_, _, _, _)
RunSchedule(state, moves, schedule, i) ==
    IF i > Len(schedule) THEN state
    ELSE RunSchedule(RunStep(state, moves, schedule[i]), moves, schedule, i + 1)

\* The bucket and the result of every move after the schedule.
RunMovesScheduled(bucket, moves, schedule) ==
    RunSchedule([bucket |-> bucket, result |-> [n \in DOMAIN moves |-> "success"]],
                moves, schedule, 1)

\* C22: for the plan of every sync pass, every schedule of the copy and delete
\* steps of its moves (the moves in any order, or interleaved) ends with the
\* bucket and the per-move results of the plan order.
C22_MovesIndependent ==
    ExecutionStarts =>
        \A schedule \in Schedules(plan.moves) :
            RunMovesScheduled(remote, plan.moves, schedule)
                = RunMovesScheduled(remote, plan.moves, InPlanOrder(plan.moves))

\* The same for the plans that name no key twice.
C22_MovesIndependentSingleUse ==
    (ExecutionStarts /\ \A k \in AllKeys : KeyUses(plan, k) <= 1) =>
        \A schedule \in Schedules(plan.moves) :
            RunMovesScheduled(remote, plan.moves, schedule)
                = RunMovesScheduled(remote, plan.moves, InPlanOrder(plan.moves))

(***************************************************************************)
(* Rename and modification of one identity between two runs.               *)
(***************************************************************************)
\* f is not at its recorded path, and its size or modification time differs
\* from the record as well.
RenamedAndChanged(f) ==
    /\ Renamed(f)
    /\ (f.size # PreviousOf(f).size \/ f.mtime # PreviousOf(f).mtime)

\* Entries of plan p made for the file at path k: moves to k and uploads of k.
EntriesFor(p, k) ==
      Cardinality({n \in DOMAIN p.moves : p.moves[n][2] = k})
    + Cardinality({n \in DOMAIN p.uploads : p.uploads[n][2] = k})

\* C23: a file that was renamed and whose size or modification time changed
\* gets the entry of the rename branch alone: the move from its old path when
\* that path is listed remotely, the upload of its new path when it is not,
\* and never a move and an upload together.
C23_RenameOverModification ==
    pc = "planned" =>
        \A f \in Range(current_files) :
            RenamedAndChanged(f) =>
                /\ PreviousOf(f).path \in DOMAIN s3_objects =>
                       /\ <<PreviousOf(f).path, f.path>> \in Range(plan.moves)
                       /\ f.path \notin UploadKeys(plan)
                /\ PreviousOf(f).path \notin DOMAIN s3_objects =>
                       /\ <<AbsPath(f.path), f.path>> \in Range(plan.uploads)
                       /\ f.path \notin MoveDestinations(plan)
                /\ EntriesFor(plan, f.path) = 1

\* One plan with both cases: a renamed and modified file whose old path is
\* listed (moved, not uploaded) and one whose old path is not (uploaded).
C23_Witness ==
    /\ pc = "planned"
    /\ \E f, g \in Range(current_files) :
           /\ RenamedAndChanged(f) /\ FileModified(f, PreviousOf(f))
           /\ PreviousOf(f).path \in DOMAIN s3_objects
           /\ <<PreviousOf(f).path, f.path>> \in Range(plan.moves)
           /\ f.path \notin UploadKeys(plan)
           /\ RenamedAndChanged(g)
           /\ PreviousOf(g).path \notin DOMAIN s3_objects
           /\ g.path \in UploadKeys(plan)

\* C24: a sync pass that follows, with no local change in between, a completed
\* sync pass that moved the remote object of a renamed and modified file to its
\* new path plans an upload of that new path.
C24_EditSeenByNextRun ==
    (cmd = "sync" /\ pc \in {"moves", "deletes", "uploads", "update_db",
                               "finish", "done"}) =>
        \A k \in moved_edits : k \in UploadKeys(plan)

(***************************************************************************)
(* A source path that is not a directory.                                  *)
(***************************************************************************)
\* A sync or moves run begins.
RunBegins == pc = "idle" /\ pc' # "idle"

\* The run ended at once, with no listing taken, no remote call made and the
\* index, the bucket and the restore log as they were.
AbortedBeforeAnyCall ==
    /\ pc' = "done" /\ report' = "traceback"
    /\ s3_objects' = <<>> /\ calls' = <<>> /\ db_writes' = <<>>
    /\ UNCHANGED <<db, remote, restore_log>>

\* C25: a sync or moves run whose source path is not a directory when the run
\* begins ends at once: no listing, no move, delete or upload, and the index and
\* the restore log neither created nor changed.
C25_ConfigErrorAborts ==
    [][(RunBegins /\ source_kind # "dir") => AbortedBeforeAnyCall]_vars

\* The same for a source path that names something other than a directory.
C25_ConfigErrorAbortsNotADirectory ==
    [][(RunBegins /\ source_kind = "file") => AbortedBeforeAnyCall]_vars

(***************************************************************************)
(* What a pass reports when it ends.                                       *)
(***************************************************************************)
\* A call that came back without having changed the bucket.
CallChangedNothing(call) ==
    /\ ~call.raised
    /\ \/ call.op = "upload" /\ call.result = FALSE
       \/ call.op = "move" /\ call.result \in {"error", "archived"}
       \/ call.op = "delete_objects" /\ call.result = {}

\* The pass made no remote change: no call of it changed anything and the
\* bucket lists as it did when the pass listed it.
NoRemoteChange ==
    /\ \A n \in DOMAIN calls : CallChangedNothing(calls[n])
    /\ list_objects(remote) = s3_objects

\* C26: a sync pass (no dry run) that ran to its end and made no remote change
\* reports that everything is in sync, not that the sync is complete.
C26_NoChangeReportsInSync ==
    (pc = "done" /\ cmd = "sync" /\ ~dry_run
        /\ report \in {"in_sync", "complete"} /\ NoRemoteChange) =>
        report = "in_sync"

(***************************************************************************)
(* S3Client.move_object on its own, call by call: every bucket over the    *)
(* plan paths, every pair of keys, every answer of copy_object and of      *)
(* delete_object.                                                          *)
(***************************************************************************)
\* What a boto3 client call can do: return, raise ClientError with an error
\* code, or raise something that is no ClientError (a connection failure).
\* copy_object of a key that does not exist cannot return.
CopyResponses(bucket, old_key) ==
    IF old_key \in DOMAIN bucket
    THEN {"ok", "InvalidObjectState", "AccessDenied", "not_client_error"}
    ELSE {"NoSuchKey", "not_client_error"}

DeleteResponses == {"ok", "AccessDenied", "not_client_error"}

\* The except clause: error_code == 'InvalidObjectState' or anything else; an
\* exception that is no ClientError is not caught.
MoveResult(response) ==
    CASE response = "not_client_error"   -> "raised"
      [] response = "InvalidObjectState" -> "archived"
      [] OTHER                           -> "error"

\* Mutant of move_object_calls: the source is deleted whether the copy worked or not.
move_object_calls_DeleteAnyway(bucket, old_key, new_key, copy, delete) ==
    LET copied == IF copy = "ok" THEN Put(bucket, new_key, bucket[old_key]) ELSE bucket
    IN  IF delete # "ok"
        THEN [result |-> MoveResult(delete), remote |-> copied]
        ELSE [result |-> IF copy = "ok" THEN "success" ELSE MoveResult(copy),
              remote |-> Remove(copied, {old_key})]

\* move_object with the answers of its two client calls given.
move_object_calls(bucket, old_key, new_key, copy, delete) ==
    IF copy # "ok"
    THEN [result |-> MoveResult(copy), remote |-> bucket]
    ELSE LET copied == Put(bucket, new_key, bucket[old_key])
         IN  IF delete # "ok"
             THEN [result |-> MoveResult(delete), remote |-> copied]
             ELSE [result |-> "success", remote |-> Remove(copied, {old_key})]

MoveContents ==
    {[inode |-> i, size |-> 1, mtime |-> m] : i \in UserInodes, m \in Mtimes}

MoveBuckets ==
    UNION {[K -> MoveContents] : K \in SUBSET PlanPaths}

\* The bucket a listing was taken of (the model's etag is the content).
Listed(listing) == [k \in DOMAIN listing |-> listing[k].etag]

InitMove ==
    /\ pc = "move_input"
    /\ remote \in MoveBuckets
    /\ s3_objects = list_objects(remote)
    /\ \E old_key, new_key \in PlanPaths :
           /\ old_key # new_key
           /\ plan = [moves |-> <<<<old_key, new_key>>>>, uploads |-> <<>>,
                      deletes |-> <<>>]
    /\ fs = {} /\ db = {}
    /\ restore_log = [exists |-> FALSE, text |-> ""]
    /\ now = 0 /\ passes = 0 /\ cmd = "sync" /\ dry_run = FALSE
    /\ delete_orphans = FALSE
    /\ previous_records = <<>> /\ current_files = <<>>
    /\ idx = 1 /\ pending_keys = {} /\ calls = <<>> /\ db_writes = <<>>
    /\ report = "none"
    /\ archived_moves = {} /\ moved_edits = {} /\ previous_pass = NoPass /\ source_kind = "dir"
    /\ heads = <<>> /\ statuses = <<>> /\ logged_keys = {}

\* s3.move_object(old_key, new_key, archive_handler)
MoveObject ==
    /\ pc = "move_input"
    /\ LET old_key == plan.moves[1][1]
           new_key == plan.moves[1][2]
       IN  \E copy \in CopyResponses(remote, old_key), delete \in DeleteResponses :
               LET out == move_object_calls(remote, old_key, new_key, copy, delete)
               IN  /\ remote' = out.remote
                   /\ pending_keys' = IF out.result = "archived" THEN {old_key} ELSE {}
                   /\ calls' = <<[op |-> "move", key |-> new_key, keys |-> <<old_key>>,
                                  result |-> out.result,
                                  raised |-> out.result = "raised",
                                  copy |-> copy,
                                  delete |-> IF copy = "ok" THEN delete ELSE "not_called"]>>
    /\ pc' = "moved"
    /\ UNCHANGED <<fs, db, restore_log, now, passes, cmd, dry_run, delete_orphans,
                   previous_records, current_files, s3_objects, plan, idx,
                   db_writes, report, archived_moves, moved_edits, previous_pass, source_kind,
                   heads, statuses, logged_keys>>

NextMove == MoveObject

SpecMove == InitMove /\ [][NextMove]_vars

\* The answer that made the move fail, "ok" when none did.
FailureOf(call) == IF call.copy # "ok" THEN call.copy ELSE call.delete

MaxBatches == 3
MaxTail == 2

\* Lengths of the key list: whole batches, and whole batches with a short tail.
BatchLengths ==
    {b * DeleteBatchSize + t : b \in 0..(MaxBatches - 1), t \in 0..MaxTail}

\* The keys are told apart by their number; no key is listed twice (the plan
\* lists each orphan once).
BatchKeys(n) == [k \in 1..n |-> k]

InitBatch ==
    /\ pc = "batch_input"
    /\ \E n \in BatchLengths :
           /\ plan = [moves |-> <<>>, uploads |-> <<>>, deletes |-> BatchKeys(n)]
           /\ \E present \in {1..n, {}} :
                  remote = [k \in present |-> [inode |-> 0, size |-> 1, mtime |-> 0]]
    /\ s3_objects = <<>>
    /\ fs = {} /\ db = {}
    /\ restore_log = [exists |-> FALSE, text |-> ""]
    /\ now = 0 /\ passes = 0 /\ cmd = "sync" /\ dry_run = FALSE
    /\ delete_orphans = TRUE
    /\ previous_records = <<>> /\ current_files = <<>>
    /\ idx = 1 /\ pending_keys = {} /\ calls = <<>> /\ db_writes = <<>>
    /\ report = "none"
    /\ archived_moves = {} /\ moved_edits = {} /\ previous_pass = NoPass /\ source_kind = "dir"
    /\ heads = <<>> /\ statuses = <<>> /\ logged_keys = {}

\* deleted = s3.delete_objects(plan.deletes)
DeleteObjects ==
    /\ pc = "batch_input"
    /\ \E out \in delete_objects(remote, plan.deletes) :
           /\ remote' = out.remote
           /\ calls' = <<[op |-> "delete_objects", key |-> "", keys |-> plan.deletes,
                          result |-> out.confirmed, raised |-> FALSE,
                          deleted_count |-> out.deleted_count,
                          batches |-> out.batches]>>
    /\ pc' = "deleted"
    /\ UNCHANGED <<fs, db, restore_log, now, passes, cmd, dry_run, delete_orphans,
                   previous_records, current_files, s3_objects, plan, idx,
                   pending_keys, db_writes, report, archived_moves, moved_edits,
                   previous_pass, source_kind, heads, statuses, logged_keys>>

NextBatch == DeleteObjects

SpecBatch == InitBatch /\ [][NextBatch]_vars

\* Sum of the numbers of keys the answered batches confirmed.
RECURSIVE ConfirmedSum(_)
ConfirmedSum(batches) ==
    IF batches = <<>> THEN 0
    ELSE (IF Head(batches).response.error THEN 0
          ELSE Cardinality(Head(batches).response.deleted))
         + ConfirmedSum(Tail(batches))

MaxBulk == 2

\* Mutant of upsert: a plain INSERT, without the ON CONFLICT(path) clause.
upsert_InsertOnly(db_, record) == db_ \cup {record}

\* INSERT ... ON CONFLICT(path) DO UPDATE SET inode, size, mtime, synced
upsert(db_, record) == {r \in db_ : r.path # record.path} \cup {record}

\* cursor.executemany: the statement once per element of data, in list order.
RECURSIVE executemany_upsert(_, _)
executemany_upsert(db_, data) ==
    IF data = <<>> THEN db_
    ELSE executemany_upsert(upsert(db_, Head(data)), Tail(data))

\* DELETE FROM files WHERE path = ?
delete_by_path(db_, path) == {r \in db_ : r.path # path}

TableRecords ==
    {FileRecord(p, i, s, m, y) :
        p \in UserPaths, i \in UserInodes, s \in Sizes, m \in Mtimes, y \in BOOLEAN}

\* Lists given to bulk_upsert: they may name a path twice.
BulkLists ==
    UNION {[1..n -> {FileRecord(p, i, 1, 0, TRUE) : p \in UserPaths, i \in UserInodes}] :
              n \in 0..MaxBulk}

TableCall(op, records, paths) == [op |-> op, records |-> records, paths |-> paths]

InitTable ==
    /\ pc = "table"
    /\ db = {} /\ db_writes = <<>> /\ previous_records = <<>>
    /\ fs = {} /\ remote = <<>>
    /\ restore_log = [exists |-> FALSE, text |-> ""]
    /\ now = 0 /\ passes = 0 /\ cmd = "sync" /\ dry_run = FALSE
    /\ delete_orphans = FALSE
    /\ current_files = <<>> /\ s3_objects = <<>> /\ plan = SyncPlan
    /\ idx = 1 /\ pending_keys = {} /\ calls = <<>> /\ report = "none"
    /\ archived_moves = {} /\ moved_edits = {} /\ previous_pass = NoPass /\ source_kind = "dir"
    /\ heads = <<>> /\ statuses = <<>> /\ logged_keys = {}

TableUnchanged ==
    UNCHANGED <<fs, remote, restore_log, now, passes, pc, cmd, dry_run,
                delete_orphans, current_files, s3_objects, plan, idx,
                pending_keys, calls, report, archived_moves, moved_edits,
                previous_pass, source_kind, heads, statuses, logged_keys>>

Upsert ==
    /\ pc = "table"
    /\ \E record \in TableRecords :
           /\ db' = upsert(db, record)
           /\ db_writes' = <<TableCall("upsert", <<record>>, {})>>
    /\ previous_records' = <<>>
    /\ TableUnchanged

BulkUpsert ==
    /\ pc = "table"
    /\ \E records \in BulkLists :
           /\ db' = executemany_upsert(db, records)
           /\ db_writes' = <<TableCall("bulk_upsert", records, {})>>
    /\ previous_records' = <<>>
    /\ TableUnchanged

DeleteByPath ==
    /\ pc = "table"
    /\ \E path \in UserPaths :
           /\ db' = delete_by_path(db, path)
           /\ db_writes' = <<TableCall("delete_by_path", <<>>, {path})>>
    /\ previous_records' = <<>>
    /\ TableUnchanged

TableDeleteMissingPaths ==
    /\ pc = "table"
    /\ \E current_paths \in SUBSET UserPaths :
           /\ db' = delete_missing_paths(db, current_paths).db
           /\ db_writes' = <<TableCall("delete_missing_paths", <<>>, current_paths)>>
    /\ previous_records' = <<>>
    /\ TableUnchanged

GetAllRecords ==
    /\ pc = "table"
    /\ previous_records' \in get_all_records(db)
    /\ db_writes' = <<TableCall("get_all_records", <<>>, {})>>
    /\ db' = db
    /\ TableUnchanged

NextTable ==
    \/ Upsert
    \/ BulkUpsert
    \/ DeleteByPath
    \/ TableDeleteMissingPaths
    \/ GetAllRecords

SpecTable == InitTable /\ [][NextTable]_vars

\* The call just made was op.
LastCall(op) == pc = "table" /\ db_writes # <<>> /\ db_writes[1].op = op

\* C29: after any sequence of upsert, bulk_upsert, delete_by_path and
\* delete_missing_paths the table has at most one row per path; an upsert of a
\* path that has a row replaces that row's inode, size, modification time and
\* synced flag and leaves the other rows alone; and get_all_records, also when
\* rows of different paths share an inode, returns for every inode of the table
\* exactly one row that has it.  A bulk_upsert of a list that names no path
\* twice is the replacement of rows that the passes are run with.
C29_OneRecordPerPath ==
    /\ [](pc = "table" => \A r, q \in db : r.path = q.path => r = q)
    /\ [](LastCall("get_all_records") =>
             /\ DOMAIN previous_records = {r.inode : r \in db}
             /\ \A i \in DOMAIN previous_records :
                    previous_records[i] \in db /\ previous_records[i].inode = i)
    /\ [](LastCall("bulk_upsert") =>
             \A n \in DOMAIN db_writes[1].records :
                 (\A m \in DOMAIN db_writes[1].records :
                      m > n => db_writes[1].records[m].path # db_writes[1].records[n].path)
                     => db_writes[1].records[n] \in db)
    /\ [][(pc = "table" /\ db_writes' # <<>> /\ db_writes'[1].op = "upsert") =>
             LET record == db_writes'[1].records[1]
             IN  /\ record \in db'
                 /\ \A r \in db' : r.path = record.path => r = record
                 /\ \A r \in TableRecords :
                        r.path # record.path => (r \in db' <=> r \in db)]_vars
    /\ [][(pc = "table" /\ db_writes' # <<>> /\ db_writes'[1].op = "bulk_upsert") =>
             LET records == db_writes'[1].records
             IN  (\A m, n \in DOMAIN records :
                      m # n => records[m].path # records[n].path)
                     => db' = bulk_upsert(db, Range(records))]_vars

\* get_all_records has just answered for a table in which the rows of a.txt and
\* of b.txt have one inode; its answer has the one entry.
C29_Witness ==
    /\ LastCall("get_all_records")
    /\ \E r, q \in db : r.path # q.path /\ r.inode = q.inode
    /\ Cardinality(db) = 2
    /\ Cardinality(DOMAIN previous_records) = 1

(***************************************************************************)
(* What a pass whose calls all succeed leaves in the bucket.               *)
(***************************************************************************)
\* A sync pass, no dry run, ran to its end and every call of it succeeded; the
\* index it read named only paths the bucket listed.
SuccessfulPass ==
    /\ pc = "done" /\ cmd = "sync" /\ ~dry_run
    /\ report \in {"in_sync", "complete"}
    /\ \A n \in DOMAIN calls : CallSucceeded(calls[n])
    /\ \A i \in DOMAIN previous_records : previous_records[i].path \in DOMAIN s3_objects

\* C30: after a sync pass (no dry run) in which every remote call succeeded,
\* every path of the scan of that pass is a key of the bucket.
C30_SuccessfulPassConverges ==
    SuccessfulPass => \A f \in Range(current_files) : f.path \in DOMAIN remote

\* The same for the passes whose plan names no key twice and moves no object
\* away from a path that a scanned file has.
C30_SuccessfulPassConvergesApart ==
    (/\ SuccessfulPass
     /\ \A k \in AllKeys : KeyUses(plan, k) <= 1
     /\ MoveSources(plan) \cap CurrentPaths = {}) =>
        \A f \in Range(current_files) : f.path \in DOMAIN remote

(***************************************************************************)
(* A pass seen from the pass before it.                                    *)
(***************************************************************************)
\* A sync pass has its plan, and the pass before it was a sync pass with the
\* same delete flag, no dry run, whose calls all succeeded; nothing changed the
\* tree or the bucket in between.
FollowsSuccessfulSync ==
    /\ cmd = "sync"
    /\ pc \in {"moves", "deletes", "uploads", "update_db", "finish", "done"}
    /\ report # "traceback"
    /\ previous_pass.cmd = "sync"
    /\ previous_pass.delete_orphans = delete_orphans

\* C31: a sync pass that follows at once a sync pass (no dry run) whose calls
\* all succeeded, with the same delete flag, has an empty plan.
C31_SyncIdempotent ==
    FollowsSuccessfulSync => PlanIsEmpty(plan)

\* The same for the user's files alone: the plan names none of their paths.
C31_SyncIdempotentUserFiles ==
    FollowsSuccessfulSync =>
        (MoveSources(plan) \cup MoveDestinations(plan) \cup UploadKeys(plan)
            \cup DeleteKeys(plan)) \cap PlanPaths = {}

(***************************************************************************)
(* Dry runs.                                                               *)
(***************************************************************************)
\* C32: a sync or moves pass run with the dry-run flag makes no remote call,
\* no write to the index and none to the restore log, from its first step to
\* its last, whatever its plan is: the bucket, the index and the restore log
\* stay as they were.
C32_DryRunChangesNothing ==
    [][(dry_run' /\ pc' # "idle") =>
           /\ calls' = <<>> /\ db_writes' = <<>> /\ pending_keys' = {}
           /\ UNCHANGED <<db, remote, restore_log, logged_keys>>]_vars

\* A dry run of sync has gone through a plan with a move, a delete and an upload.
C32_Witness ==
    /\ dry_run /\ cmd = "sync" /\ pc = "done" /\ report = "complete"
    /\ plan.moves # <<>> /\ plan.deletes # <<>> /\ plan.uploads # <<>>
    /\ calls = <<>> /\ db_writes = <<>>
    /\ remote = Listed(s3_objects)

(***************************************************************************)
(* A moves pass and the sync pass after it.                                *)
(***************************************************************************)
\* A sync pass has its plan, and the pass before it was a moves pass, no dry
\* run; nothing changed the tree in between.
FollowsMoves ==
    /\ cmd = "sync"
    /\ pc \in {"moves", "deletes", "uploads", "update_db", "finish", "done"}
    /\ report # "traceback"
    /\ previous_pass.cmd = "moves"

\* C33: a moves pass makes no upload and no delete call; and the sync pass that
\* follows a moves pass (no dry run) with no local change in between plans the
\* upload of every scanned file whose path the listing does not have and of
\* every file that the moves pass found modified.
C33_MovesKeepsUploadsPending ==
    /\ cmd = "moves" => CallsOf("upload") = {} /\ CallsOf("delete_objects") = {}
    /\ FollowsMoves =>
           \A f \in Range(current_files) :
               (f.path \notin DOMAIN s3_objects \/ f.path \in previous_pass.modified)
                   => f.path \in UploadKeys(plan)

\* The part about the moves pass itself.
C33_MovesOnlyMoves ==
    cmd = "moves" =>
        /\ CallsOf("upload") = {} /\ CallsOf("delete_objects") = {}
        /\ plan.deletes = <<>>

(***************************************************************************)
(* C34: shape of the plan.                                                 *)
(***************************************************************************)
\* The scanned file that plan entry <<source, destination>> of the moves was
\* queued for: the one at the destination, renamed from the source.
MovedFile(move) ==
    {f \in Range(current_files) :
        /\ f.path = move[2]
        /\ Renamed(f)
        /\ PreviousOf(f).path = move[1]}

\* C34: every scanned file has at most one entry among the moves and uploads,
\* and the plan has no more such entries than scanned files; every move goes
\* from a key of the remote listing that is the recorded path of the file it
\* moves; every move destination and every upload key is the path of a
\* scanned file; every delete key is a key of the remote listing.
C34_PlanWellFormed ==
    pc = "planned" =>
        /\ \A f \in Range(current_files) : EntriesFor(plan, f.path) <= 1
        /\ Len(plan.moves) + Len(plan.uploads) <= Len(current_files)
        /\ \A n \in DOMAIN plan.moves :
               /\ plan.moves[n][1] \in DOMAIN s3_objects
               /\ MovedFile(plan.moves[n]) # {}
        /\ MoveDestinations(plan) \subseteq CurrentPaths
        /\ UploadKeys(plan) \subseteq CurrentPaths
        /\ \A n \in DOMAIN plan.uploads :
               plan.uploads[n][1] = AbsPath(plan.uploads[n][2])
        /\ DeleteKeys(plan) \subseteq DOMAIN s3_objects

\* A plan with a move, an upload and a delete: one file renamed from a listed
\* key, one file uploaded, one listed key that no scanned file accounts for.
C34_Witness ==
    /\ pc = "planned"
    /\ Len(current_files) = 2
    /\ Len(plan.moves) = 1 /\ Len(plan.uploads) = 1 /\ plan.deletes # <<>>
    /\ MovedFile(plan.moves[1]) # {}
    /\ plan.uploads[1][2] # plan.moves[1][2]

(***************************************************************************)
(* C35: the restore log across sync, moves, restore and restore-status.    *)
(***************************************************************************)
\* The set of keys load_pending_keys returns.
LoadedKeys(log) == Range(load_pending_keys(log))

\* text.startswith(old): old is kept, whatever was written comes after it.
Appended(old, text) == StartsWith(text, old)

\* A restore-status invocation in which every key reported completed.
AllReportedCompleted ==
    /\ pc = "idle" /\ pc' = "status_done"
    /\ LoadedKeys(restore_log) # {}
    /\ \A k \in LoadedKeys(restore_log) : statuses'[k].restore_status = "completed"

\* Number of restore requests made for key k.
RestoreRequests(requests, k) ==
    Cardinality({n \in DOMAIN requests : requests[n].op = "restore" /\ requests[n].key = k})

\* C35: the set load_pending_keys returns loses a key only in a restore-status
\* invocation in which every key reported completed; a sync or moves pass
\* keeps what the log holds and writes after it, and leaves the log as it was
\* when it archived no move; the restore command leaves the log as it was and
\* makes exactly one restore request for every key that was logged, and none
\* for any other key.
C35_LogOnlyGrows ==
    [][/\ LoadedKeys(restore_log) \subseteq LoadedKeys(restore_log') \/ AllReportedCompleted
       /\ passes' = passes + 1 =>
              /\ restore_log.exists => restore_log'.exists
              /\ Appended(restore_log.text, restore_log'.text)
              /\ pending_keys' = {} => restore_log' = restore_log
       /\ (pc = "idle" /\ pc' = "restore_done") =>
              /\ restore_log' = restore_log
              /\ \A k \in logged_keys : RestoreRequests(calls', k) = 1
              /\ Len(calls') = Cardinality(logged_keys)]_vars

\* The same, the restore command being one that returns, run on a log whose
\* keys line.strip() and the comment test leave as they were written.
C35_LogOnlyGrowsPlainKeys ==
    [][/\ LoadedKeys(restore_log) \subseteq LoadedKeys(restore_log') \/ AllReportedCompleted
       /\ passes' = passes + 1 =>
              /\ restore_log.exists => restore_log'.exists
              /\ Appended(restore_log.text, restore_log'.text)
              /\ pending_keys' = {} => restore_log' = restore_log
       /\ (pc = "idle" /\ pc' = "restore_done") =>
              /\ restore_log' = restore_log
              /\ ((\A k \in logged_keys : PlainKey(k)) /\ report' # "traceback") =>
                     /\ \A k \in logged_keys : RestoreRequests(calls', k) = 1
                     /\ Len(calls') = Cardinality(logged_keys)]_vars

\* The restore command made one request for each of two keys that two passes
\* had logged.
C35_RestoreRequestsEach ==
    /\ pc = "restore_done" /\ report = "initiated"
    /\ passes = MaxSaves
    /\ Cardinality(logged_keys) = 2
    /\ \A k \in logged_keys : PlainKey(k) /\ RestoreRequests(calls, k) = 1

====
